---- MODULE Spec2Model ----
(***************************************************************************)
(* Market-structure pipeline of POP-SYSTEM: candle feed -> SwingEngine ->  *)
(* BreakoutEngine -> EqhEqlEngine, for one (symbol, granularity) key, plus *)
(* the per-key promise lock the engines share.                             *)
(*                                                                         *)
(* Candle positions are 0-based as in the source (candle.index = array     *)
(* position given by getCandles(..., withIndex = true)); the TLA+ sequence *)
(* element of index i is candles[i + 1].                                   *)
(***************************************************************************)
EXTENDS Integers, Sequences, FiniteSets, TLC

\* ------------------------------------------------------------------ bounds
\* Longest candle history fed to the engines.
MaxCandles == 7
\* Largest swing strength tried by the swing-only specification.
MaxStrength == 2
\* config.js MAX_BOS_SCAN_CANDLES (10 in defaultConfig), scaled down so that a
\* history of MaxCandles bars can exhaust the window.
MAX_BOS_SCAN_CANDLES == 2
\* config.js MAX_LEVELS_PER_SYMBOL (1000 in defaultConfig), scaled down so that
\* a history of MaxCandles bars can overfill the store.
MAX_LEVELS_PER_SYMBOL == 2
\* config.js MAX_SETUP_SCAN_CANDLES (50 in defaultConfig): the candles after
\* the breaking candle that getSetups scans, scaled down.
MAX_SETUP_SCAN_CANDLES == 2
\* config.js MAX_LEVEL_AGE_MS (30 days in defaultConfig), scaled down to three
\* bar periods of one second.
MAX_LEVEL_AGE_MS == 3000

\* JavaScript null / undefined, by the type of the value it stands in for.
Null == "null"
None == [none |-> TRUE]
NoKey == <<>>
NullNum == -1
Infinity == 1000

\* ------------------------------------------------------------------ candles
\* OHLC shapes the feed may deliver (prices 1..6).  A is a low bar, B a high
\* bar with a body below its wick, S pokes above B without closing above it,
\* K closes above B, U closes above K.
ShapeA == [open |-> 2, high |-> 2, low |-> 1, close |-> 2]
ShapeB == [open |-> 3, high |-> 4, low |-> 3, close |-> 3]
ShapeS == [open |-> 4, high |-> 5, low |-> 3, close |-> 4]
ShapeK == [open |-> 4, high |-> 5, low |-> 4, close |-> 5]
ShapeU == [open |-> 5, high |-> 6, low |-> 4, close |-> 6]
Shapes == {ShapeA, ShapeB, ShapeS, ShapeK, ShapeU}
\* A sane bar with a long lower wick: its low lies well below its body
ShapeW == [open |-> 5, high |-> 5, low |-> 2, close |-> 5]
\* A bar with high < low: the feed drops it (signalEngine.js isSaneCandle), the
\* swing engine has its own test for the case that one gets through.
ShapeX == [open |-> 3, high |-> 2, low |-> 5, close |-> 3]
SwingShapes == {ShapeA, ShapeB, ShapeU, ShapeX}
\* A bar whose open lies above its high, with high >= low
ShapeY == [open |-> 6, high |-> 5, low |-> 3, close |-> 4]

\* A low bar that closes on its low, and a bar that engulfs B: its high lies
\* above the high of B and its low below the low of B
ShapeL == [open |-> 1, high |-> 2, low |-> 1, close |-> 1]
ShapeE == [open |-> 3, high |-> 6, low |-> 2, close |-> 5]

\* The same bar upside down (price p becomes 7 - p), so that every bullish
\* pattern the shapes can form also occurs as a bearish one.
Flip(s) == [open |-> 7 - s.open, high |-> 7 - s.low,
            low |-> 7 - s.high, close |-> 7 - s.close]

\* signalEngine.js storeCandles / updateLiveCandle: time is the epoch of the
\* bar in seconds, strictly increasing with the position.
CandleTime(i) == 10 + i

\* Date.now() when an engine runs on a history of n bars, in milliseconds:
\* the bar n - 1 has just closed, which is when bar n opens.
DateNow(n) == 1000 * CandleTime(n)

\* signalEngine.js getCandles(withIndex): candles.map((c, i) => ({...c, index: i}))
MakeCandle(s, i) ==
  [index |-> i, time |-> CandleTime(i),
   open |-> s.open, high |-> s.high, low |-> s.low, close |-> s.close]

\* ------------------------------------------------------------------ helpers
\* `const v = e; F(v)`: e is evaluated once and F is given its value.
With(e, F(_)) == CHOOSE out \in {F(v) : v \in {e}} : TRUE

\* Smallest / largest member of a set of array positions, -1 when it is empty.
FirstOf(S) == With(S, LAMBDA T : IF T = {} THEN -1 ELSE CHOOSE p \in T : \A q \in T : p <= q)
LastOf(S) == With(S, LAMBDA T : IF T = {} THEN -1 ELSE CHOOSE p \in T : \A q \in T : q <= p)

\* Array.prototype.sort((a, b) => a.time - b.time): stable, ascending by time.
RECURSIVE InsertByTime(_, _)
InsertByTime(sorted, x) ==
  IF sorted = <<>> THEN <<x>>
  ELSE IF sorted[Len(sorted)].time <= x.time THEN Append(sorted, x)
  ELSE With(InsertByTime(SubSeq(sorted, 1, Len(sorted) - 1), x), LAMBDA front :
         Append(front, sorted[Len(sorted)]))

RECURSIVE SortByTime(_)
SortByTime(s) ==
  IF s = <<>> THEN <<>>
  ELSE With(SortByTime(SubSeq(s, 1, Len(s) - 1)), LAMBDA front :
         InsertByTime(front, s[Len(s)]))

\* ------------------------------------------------------------------ swings.js
calculateKeyPrice(type, candle) ==
  IF type = "high" THEN (IF candle.open >= candle.close THEN candle.open ELSE candle.close)
  ELSE IF type = "low" THEN (IF candle.open <= candle.close THEN candle.open ELSE candle.close)
  ELSE candle.close

\* All four prices are finite numbers in the model, so the test that is left
\* is high >= low.
isSaneCandle(c) == c.high >= c.low

_buildSwing(type, candle, index, strength) ==
  [type |-> type,
   price |-> IF type = "high" THEN candle.high ELSE candle.low,
   keyPrice |-> calculateKeyPrice(type, candle),
   time |-> candle.time,
   index |-> index,
   strength |-> strength,
   direction |-> Null]

\* The inner loop of detectAll / detectLatest over j = 1..strength for the
\* centre candle at 0-based position i: an insane neighbour clears both flags,
\* a neighbour at least as extreme clears the flag of its side.
WindowSane(cs, i, k) ==
  \A j \in 1..k : isSaneCandle(cs[i - j + 1]) /\ isSaneCandle(cs[i + j + 1])

\* A test that lets a candle tying a neighbour pass.
IsSwingHighAt_Ties(cs, i, k) ==
  /\ WindowSane(cs, i, k)
  /\ \A j \in 1..k : /\ cs[i + 1].high >= cs[i - j + 1].high
                     /\ cs[i + 1].high >= cs[i + j + 1].high

IsSwingHighAt(cs, i, k) ==
  /\ WindowSane(cs, i, k)
  /\ \A j \in 1..k : /\ cs[i + 1].high > cs[i - j + 1].high
                     /\ cs[i + 1].high > cs[i + j + 1].high

IsSwingLowAt(cs, i, k) ==
  /\ WindowSane(cs, i, k)
  /\ \A j \in 1..k : /\ cs[i + 1].low < cs[i - j + 1].low
                     /\ cs[i + 1].low < cs[i + j + 1].low

\* strength defaults to 1 when it is not a positive integer
ClampStrength(strength) == IF strength < 1 THEN 1 ELSE strength

\* The swings found at centre i: the high first, then the low.
SwingsAtCentre(cs, i, k, wantHigh, wantLow) ==
  IF ~isSaneCandle(cs[i + 1]) THEN <<>>
  ELSE (IF wantHigh /\ IsSwingHighAt(cs, i, k)
          THEN <<_buildSwing("high", cs[i + 1], i, k)>> ELSE <<>>)
       \o
       (IF wantLow /\ IsSwingLowAt(cs, i, k)
          THEN <<_buildSwing("low", cs[i + 1], i, k)>> ELSE <<>>)

RECURSIVE ScanSwings(_, _, _)
ScanSwings(cs, i, k) ==
  IF i >= Len(cs) - k THEN <<>>
  ELSE SwingsAtCentre(cs, i, k, TRUE, TRUE) \o ScanSwings(cs, i + 1, k)

\* Position in swings of the previous swing of the same type, 0 if none.
PrevSameType(swings, p) ==
  With(LastOf({q \in 1..(p - 1) : swings[q].type = swings[p].type}),
       LAMBDA q : IF q = -1 THEN 0 ELSE q)

LastOfType(swings, type) ==
  With(LastOf({q \in 1..Len(swings) : swings[q].type = type}),
       LAMBDA q : IF q = -1 THEN 0 ELSE q)

\* A comparison that counts an equal price as higher.
CompareDirection_OrEqual(swing, prev) ==
  IF swing.type = "high" THEN (IF swing.price >= prev.price THEN "HH" ELSE "LH")
  ELSE (IF swing.price >= prev.price THEN "HL" ELSE "LL")

CompareDirection(swing, prev) ==
  IF swing.type = "high" THEN (IF swing.price > prev.price THEN "HH" ELSE "LH")
  ELSE (IF swing.price > prev.price THEN "HL" ELSE "LL")

\* A direction pass whose incremental mode compares the newest swing with the
\* swing just before it in the list, whatever its type.
updateDirections_PrevAny(swings, fullRebuild) ==
  [p \in 1..Len(swings) |->
     With(PrevSameType(swings, p), LAMBDA prev :
       IF fullRebuild
         THEN [swings[p] EXCEPT !.direction =
                 IF prev = 0 THEN "FIRST" ELSE CompareDirection(swings[p], swings[prev])]
       ELSE IF p > 1 /\ p = Len(swings)
         THEN [swings[p] EXCEPT !.direction = CompareDirection(swings[p], swings[p - 1])]
       ELSE IF swings[p].direction = Null
         THEN [swings[p] EXCEPT !.direction = "FIRST"]
       ELSE swings[p])]

\* updateDirections(symbol, granularity, fullRebuild)
updateDirections(swings, fullRebuild) ==
  [p \in 1..Len(swings) |->
     With(PrevSameType(swings, p), LAMBDA prev :
       IF fullRebuild
         THEN [swings[p] EXCEPT !.direction =
                 IF prev = 0 THEN "FIRST" ELSE CompareDirection(swings[p], swings[prev])]
       ELSE IF prev # 0 /\ p = LastOfType(swings, swings[p].type)
         THEN [swings[p] EXCEPT !.direction = CompareDirection(swings[p], swings[prev])]
       ELSE IF prev = 0 /\ swings[p].direction = Null
         THEN [swings[p] EXCEPT !.direction = "FIRST"]
       ELSE swings[p])]

SwingKeys(swings) == {<<swings[p].index, swings[p].type>> : p \in 1..Len(swings)}

\* SwingEngine.detectAll on a store holding `old`: the store it leaves.
SwingDetectAllStore(old, cs, strength) ==
  IF Len(cs) < strength * 2 + 1 THEN old
  ELSE With(SortByTime(ScanSwings(cs, ClampStrength(strength), ClampStrength(strength))),
            LAMBDA found : updateDirections(found, TRUE))

\* An incremental detection that does not consult the index set.
SwingDetectLatestStore_NoDupCheck(old, keys, cs, strength) ==
  LET k == ClampStrength(strength)
      i == Len(cs) - k - 1
  IN IF Len(cs) < strength * 2 + 1 \/ i < k \/ i < 0 THEN old
     ELSE With(SwingsAtCentre(cs, i, k, TRUE, TRUE),
               LAMBDA new :
                 IF new = <<>> THEN old
                 ELSE With(old \o new, LAMBDA all : updateDirections(all, FALSE)))

\* SwingEngine.detectLatest on a store holding `old` (with index set `keys`):
\* the store it leaves.
SwingDetectLatestStore(old, keys, cs, strength) ==
  LET k == ClampStrength(strength)
      i == Len(cs) - k - 1
  IN IF Len(cs) < strength * 2 + 1 \/ i < k \/ i < 0 THEN old
     ELSE With(SwingsAtCentre(cs, i, k, <<i, "high">> \notin keys, <<i, "low">> \notin keys),
               LAMBDA new :
                 IF new = <<>> THEN old
                 ELSE With(old \o new, LAMBDA all : updateDirections(all, FALSE)))

\* What SwingEngine.detectAll returns: the rebuilt store, [] when it returns
\* at its length test.
SwingDetectAllResult(cs, strength) ==
  IF Len(cs) < strength * 2 + 1 THEN <<>> ELSE SwingDetectAllStore(<<>>, cs, strength)

\* What SwingEngine.detectLatest returns: the swings it pushed to the store.
SwingDetectLatestResult(old, keys, cs, strength) ==
  With(SwingDetectLatestStore(old, keys, cs, strength), LAMBDA after :
    SubSeq(after, Len(old) + 1, Len(after)))

\* ------------------------------------------------------------------ dataProcessorUtils.js
\* buildCandleIndexMap(candles).get(index): the array position of the candle
\* carrying that index, -1 for undefined.
candleIndexMapGet(cs, index) ==
  LastOf({p \in 0..(Len(cs) - 1) : cs[p + 1].index = index})

\* A resumption by the raw index value: the position after the index itself
nextArrayIdx_ByValue(cs, afterCandleIndex) ==
  IF afterCandleIndex + 1 < Len(cs) THEN afterCandleIndex + 1 ELSE -1

\* nextArrayIdx(candleIndexMap, candles, afterCandleIndex), -1 for undefined
nextArrayIdx(cs, afterCandleIndex) ==
  With(candleIndexMapGet(cs, afterCandleIndex), LAMBDA pos :
    IF pos = -1 THEN -1
    ELSE IF pos + 1 < Len(cs) THEN pos + 1 ELSE -1)

\* Counter.inc / Counter.dec (dec never goes below zero)
CounterInc(c, key) == [c EXCEPT ![key] = @ + 1]
CounterDec(c, key) == [c EXCEPT ![key] = IF @ > 0 THEN @ - 1 ELSE 0]

\* First 0-based position p in from..to whose candle satisfies Test, -1 if none.
FirstPos(cs, from, to, Test(_)) ==
  FirstOf({p \in from..to : Test(cs[p + 1])})

\* ------------------------------------------------------------------ breakouts.js
BoCountKeys == {"sustained", "close", "wick", "bullish", "bearish", "choch", "bos"}
BoZeroCounts == [key \in BoCountKeys |-> 0]

_isCHoCH(swing) ==
  \/ swing.type = "high" /\ swing.direction = "LH"
  \/ swing.type = "low" /\ swing.direction = "HL"

BosStrength(type) ==
  IF type = "BOS_SUSTAINED" THEN 3 ELSE IF type = "BOS_CLOSE" THEN 2 ELSE 1

\* BreakoutEngine._calculateConfidence, in fifteenths:
\* min(strength / 3 + (isCHoCH ? 0.2 : 0), 1.0)
BoConfidence(strength, isCHoCH) ==
  LET raw == 5 * strength + (IF isCHoCH THEN 3 ELSE 0)
  IN IF raw > 15 THEN 15 ELSE raw

CandleRef(c) == [index |-> c.index, time |-> c.time, close |-> c.close]

_buildBreakout(type, swing, breakingCandle, confirmingCandles) ==
  [bosType |-> type,
   isCHoCH |-> _isCHoCH(swing),
   strength |-> BosStrength(type),
   swingType |-> swing.type,
   swingIndex |-> swing.index,
   swingPrice |-> swing.price,
   swingKeyPrice |-> swing.keyPrice,
   swingDirection |-> swing.direction,
   swingTime |-> swing.time,
   breakingCandleIndex |-> breakingCandle.index,
   breakingCandleTime |-> breakingCandle.time,
   breakingCandleHigh |-> breakingCandle.high,
   breakingCandleLow |-> breakingCandle.low,
   breakingCandleClose |-> breakingCandle.close,
   confirmingCandles |-> [p \in 1..Len(confirmingCandles) |-> CandleRef(confirmingCandles[p])],
   breakDirection |-> IF swing.type = "high" THEN "bullish" ELSE "bearish",
   time |-> breakingCandle.time,
   confidence |-> BoConfidence(BosStrength(type), _isCHoCH(swing))]

BoIsValidSwing(swing) == swing.direction # Null

\* A sustained scan that takes any later close beyond the swing price as the
\* second confirmation.
BoClassifyClose_AgainstSwing(swing, cs, closePos) ==
  LET isHigh == swing.type = "high"
      last == Len(cs) - 1
      firstCloseBOS == cs[closePos + 1]
      Further(c) == IF isHigh THEN c.close > swing.price ELSE c.close < swing.price
  IN With(FirstPos(cs, closePos + 1,
                   IF last < closePos + MAX_BOS_SCAN_CANDLES
                     THEN last ELSE closePos + MAX_BOS_SCAN_CANDLES,
                   Further),
          LAMBDA susPos :
            IF susPos # -1
              THEN _buildBreakout("BOS_SUSTAINED", swing, firstCloseBOS,
                                  <<firstCloseBOS, cs[susPos + 1]>>)
              ELSE _buildBreakout("BOS_CLOSE", swing, firstCloseBOS, <<>>))

\* The sustained scan of _checkBreak, once the first close beyond the swing is
\* known to sit at array position closePos.
BoClassifyClose(swing, cs, closePos) ==
  LET isHigh == swing.type = "high"
      last == Len(cs) - 1
      firstCloseBOS == cs[closePos + 1]
      Further(c) == IF isHigh THEN c.close > firstCloseBOS.close
                               ELSE c.close < firstCloseBOS.close
  IN With(candleIndexMapGet(cs, firstCloseBOS.index), LAMBDA firstClosePos :
       With(FirstPos(cs, closePos + 1,
                     IF last < firstClosePos + MAX_BOS_SCAN_CANDLES
                       THEN last ELSE firstClosePos + MAX_BOS_SCAN_CANDLES,
                     Further),
            LAMBDA susPos :
              IF susPos # -1
                THEN _buildBreakout("BOS_SUSTAINED", swing, firstCloseBOS,
                                    <<firstCloseBOS, cs[susPos + 1]>>)
                ELSE _buildBreakout("BOS_CLOSE", swing, firstCloseBOS, <<>>)))

\* BreakoutEngine._checkBreak: None, or the breakout record of the swing.
_checkBreak(swing, cs) ==
  LET isHigh == swing.type = "high"
      level == swing.price
      last == Len(cs) - 1
      WickBeyond(c) == IF isHigh THEN c.high > level ELSE c.low < level
      CloseBeyond(c) == IF isHigh THEN c.close > level ELSE c.close < level
  IN IF ~BoIsValidSwing(swing) THEN None
     ELSE With(nextArrayIdx(cs, swing.index), LAMBDA startIdx :
       IF startIdx = -1 THEN None
       ELSE With(FirstPos(cs, startIdx, last, CloseBeyond), LAMBDA closePos :
         IF closePos # -1 THEN BoClassifyClose(swing, cs, closePos)
         ELSE With(FirstPos(cs, startIdx, last, WickBeyond), LAMBDA wickPos :
           IF wickPos # -1 THEN _buildBreakout("BOS_WICK", swing, cs[wickPos + 1], <<>>)
           ELSE None)))

BoKey(b) == <<b.swingIndex, b.swingType>>

\* The state of the engine for the key: the store, the duplicate set, the
\* counts and the keys of the cached last bullish / bearish breakouts (the
\* caches alias objects of the store).
BoEmpty ==
  [store |-> <<>>, indexSet |-> {}, counts |-> BoZeroCounts,
   lastBullishBOS |-> NoKey, lastBearishBOS |-> NoKey]

BoTypeKey(bosType) ==
  IF bosType = "BOS_SUSTAINED" THEN "sustained"
  ELSE IF bosType = "BOS_CLOSE" THEN "close" ELSE "wick"

\* BreakoutEngine._updateCounts
_updateCounts(counts, b) ==
  CounterInc(CounterInc(CounterInc(counts, BoTypeKey(b.bosType)), b.breakDirection),
             IF b.isCHoCH THEN "choch" ELSE "bos")

\* push + _registerBreakout + _updateCounts + _updateLastBOS
BoRecord(st, b) ==
  [store |-> Append(st.store, b),
   indexSet |-> st.indexSet \cup {BoKey(b)},
   counts |-> _updateCounts(st.counts, b),
   lastBullishBOS |-> IF b.breakDirection = "bullish" THEN BoKey(b) ELSE st.lastBullishBOS,
   lastBearishBOS |-> IF b.breakDirection = "bearish" THEN BoKey(b) ELSE st.lastBearishBOS]

BoFind(store, swing) ==
  With(FirstOf({p \in 1..Len(store) :
                  store[p].swingIndex = swing.index /\ store[p].swingType = swing.type}),
       LAMBDA p : IF p = -1 THEN 0 ELSE p)

\* An upgrade that classifies the break on the newest candle alone and
\* overwrites the record with what it finds, without comparing ranks.
_upgradeBreakout_Overwrite(st, swing, cs) ==
  With(BoFind(st.store, swing), LAMBDA p :
    With(candleIndexMapGet(cs, swing.index), LAMBDA swingPos :
      IF p = 0 \/ swingPos = -1 THEN st
      ELSE With(_checkBreak(swing, <<cs[swingPos + 1], cs[Len(cs)]>>), LAMBDA result :
             IF result = None THEN st
             ELSE [st EXCEPT !.store = [st.store EXCEPT ![p] = result]])))

\* An upgrade that also stamps the swing time with the time of the breaking candle
_upgradeBreakout_Restamp(st, swing, cs) ==
  With(BoFind(st.store, swing), LAMBDA p :
    IF p = 0 THEN st
    ELSE IF st.store[p].bosType = "BOS_SUSTAINED" THEN st
    ELSE With(_checkBreak(swing, cs), LAMBDA result :
      IF result = None THEN st
      ELSE IF result.strength <= st.store[p].strength THEN st
      ELSE LET existing == st.store[p]
               upgraded ==
                 [existing EXCEPT
                    !.bosType = result.bosType,
                    !.strength = result.strength,
                    !.breakingCandleIndex = result.breakingCandleIndex,
                    !.breakingCandleTime = result.breakingCandleTime,
                    !.breakingCandleHigh = result.breakingCandleHigh,
                    !.breakingCandleLow = result.breakingCandleLow,
                    !.breakingCandleClose = result.breakingCandleClose,
                    !.confirmingCandles = result.confirmingCandles,
                    !.time = result.time,
                    !.swingTime = result.breakingCandleTime,
                    !.confidence = BoConfidence(result.strength, existing.isCHoCH)]
               c1 == IF existing.strength = 1 THEN CounterDec(st.counts, "wick") ELSE st.counts
               c2 == IF existing.strength = 2 THEN CounterDec(c1, "close") ELSE c1
               c3 == IF result.strength = 2 THEN CounterInc(c2, "close") ELSE c2
               c4 == IF result.strength = 3 THEN CounterInc(c3, "sustained") ELSE c3
           IN [st EXCEPT
                 !.store = [st.store EXCEPT ![p] = upgraded],
                 !.counts = c4,
                 !.lastBullishBOS = IF existing.breakDirection = "bullish"
                                      THEN BoKey(existing) ELSE @,
                 !.lastBearishBOS = IF existing.breakDirection = "bearish"
                                      THEN BoKey(existing) ELSE @]))

\* An upgrade that keeps the confidence the record had before it
_upgradeBreakout_StaleConfidence(st, swing, cs) ==
  With(BoFind(st.store, swing), LAMBDA p :
    With(_upgradeBreakout_Restamp(st, swing, cs), LAMBDA next :
      IF p = 0 THEN next
      ELSE [next EXCEPT !.store[p].confidence = st.store[p].confidence,
                        !.store[p].swingTime = st.store[p].swingTime]))

\* An upgrade that counts the new kind without taking the old kind off
_upgradeBreakout_NoDec(st, swing, cs) ==
  With(BoFind(st.store, swing), LAMBDA p :
    With(_upgradeBreakout_Restamp(st, swing, cs), LAMBDA next :
      IF p = 0 \/ next.store[p].strength = st.store[p].strength THEN st
      ELSE [next EXCEPT
              !.store[p].swingTime = st.store[p].swingTime,
              !.counts = CounterInc(st.counts, BoTypeKey(next.store[p].bosType))]))

\* BreakoutEngine._upgradeBreakout
_upgradeBreakout(st, swing, cs) ==
  With(BoFind(st.store, swing), LAMBDA p :
    IF p = 0 THEN st
    ELSE IF st.store[p].bosType = "BOS_SUSTAINED" THEN st
    ELSE With(_checkBreak(swing, cs), LAMBDA result :
      IF result = None THEN st
      ELSE IF result.strength <= st.store[p].strength THEN st
      ELSE LET existing == st.store[p]
               upgraded ==
                 [existing EXCEPT
                    !.bosType = result.bosType,
                    !.strength = result.strength,
                    !.breakingCandleIndex = result.breakingCandleIndex,
                    !.breakingCandleTime = result.breakingCandleTime,
                    !.breakingCandleHigh = result.breakingCandleHigh,
                    !.breakingCandleLow = result.breakingCandleLow,
                    !.breakingCandleClose = result.breakingCandleClose,
                    !.confirmingCandles = result.confirmingCandles,
                    !.time = result.time,
                    !.confidence = BoConfidence(result.strength, existing.isCHoCH)]
               c1 == IF existing.strength = 1 THEN CounterDec(st.counts, "wick") ELSE st.counts
               c2 == IF existing.strength = 2 THEN CounterDec(c1, "close") ELSE c1
               c3 == IF result.strength = 2 THEN CounterInc(c2, "close") ELSE c2
               c4 == IF result.strength = 3 THEN CounterInc(c3, "sustained") ELSE c3
           IN [st EXCEPT
                 !.store = [st.store EXCEPT ![p] = upgraded],
                 !.counts = c4,
                 !.lastBullishBOS = IF existing.breakDirection = "bullish"
                                      THEN BoKey(existing) ELSE @,
                 !.lastBearishBOS = IF existing.breakDirection = "bearish"
                                      THEN BoKey(existing) ELSE @]))

\* The loop of BreakoutEngine.detectAll over swings[p..].
RECURSIVE BoScanAll(_, _, _, _)
BoScanAll(st, swings, p, cs) ==
  IF p > Len(swings) THEN st
  ELSE With(_checkBreak(swings[p], cs), LAMBDA result :
         With(IF result = None THEN st ELSE BoRecord(st, result), LAMBDA next :
           BoScanAll(next, swings, p + 1, cs)))

\* BreakoutEngine.detectAll: the store is reset, then rebuilt swing by swing.
BreakoutDetectAll(swings, cs) == BoScanAll(BoEmpty, swings, 1, cs)

\* The body of the loop of BreakoutEngine.detectLatest for one swing.
BoStepLatest(st, swing, cs) ==
  IF swing.index >= Len(cs) - 1 THEN st
  ELSE IF BoKey([swingIndex |-> swing.index, swingType |-> swing.type]) \in st.indexSet
    THEN _upgradeBreakout(st, swing, cs)
  ELSE With(_checkBreak(swing, cs), LAMBDA result :
         IF result = None THEN st ELSE BoRecord(st, result))

\* The loop of BreakoutEngine.detectLatest over swings[p..].
RECURSIVE BoScanLatest(_, _, _, _)
BoScanLatest(st, swings, p, cs) ==
  IF p > Len(swings) THEN st
  ELSE With(BoStepLatest(st, swings[p], cs), LAMBDA next :
         BoScanLatest(next, swings, p + 1, cs))

\* BreakoutEngine.detectLatest
BreakoutDetectLatest(st, swings, cs) == BoScanLatest(st, swings, 1, cs)

\* BreakoutEngine.getLatest / getCurrentBias
BoGetLatest(st) == IF st.store = <<>> THEN None ELSE st.store[Len(st.store)]

getCurrentBias(st) ==
  LET latest == BoGetLatest(st)
  IN IF latest = None THEN None
     ELSE [bias |-> latest.breakDirection, isCHoCH |-> latest.isCHoCH,
           bosType |-> latest.bosType, strength |-> latest.strength,
           confidence |-> latest.confidence]

\* ------------------------------------------------------------------ eqhEql.js
LvCountKeys == {"eqh", "eql", "active", "broken", "swept"}
LvZeroCounts == [key \in LvCountKeys |-> 0]

\* EqhEqlEngine._calculateConfidence, in tenths
LvConfidence(status, brokenBosType) ==
  LET statusConf == IF status = "active" THEN 10
                    ELSE IF status = "swept" THEN 5
                    ELSE IF status = "broken" THEN 2 ELSE 0
      bosBoost == IF status = "broken" /\ brokenBosType = "BOS_SUSTAINED" THEN 3 ELSE 0
  IN IF statusConf + bosBoost > 10 THEN 10 ELSE statusConf + bosBoost

LvIsValidSwing(swing) == swing.direction # Null

LevelKey(first, second, type) == <<first.index, second.index, type>>

\* _buildSwingIndexMap(allSwings).map.get(idx): the last swing of the list
\* that carries the index (Map.set overwrites).
swingMapGet(allSwings, idx) ==
  allSwings[LastOf({q \in 1..Len(allSwings) : allSwings[q].index = idx})]

\* The loop over swingIndices in _validateAndBuild: walks the swing list in
\* order, skips indices up to the first swing, stops at the first index that
\* reaches the second swing.
RECURSIVE HasVShapeFrom(_, _, _, _, _)
HasVShapeFrom(allSwings, q, first, second, vTargetType) ==
  IF q > Len(allSwings) THEN FALSE
  ELSE LET idx == allSwings[q].index
       IN IF idx <= first.index
            THEN HasVShapeFrom(allSwings, q + 1, first, second, vTargetType)
          ELSE IF idx >= second.index THEN FALSE
          ELSE IF swingMapGet(allSwings, idx).type = vTargetType THEN TRUE
          ELSE HasVShapeFrom(allSwings, q + 1, first, second, vTargetType)

\* 0-based positions of the candles walked by the first loop of
\* _validateAndBuild: from startIdx while candle.index < secondSwing.index.
RECURSIVE BetweenPositions(_, _, _)
BetweenPositions(cs, i, secondIndex) ==
  IF i >= Len(cs) \/ cs[i + 1].index >= secondIndex THEN <<>>
  ELSE <<i>> \o BetweenPositions(cs, i + 1, secondIndex)

\* The candle of the walk with the strictly most extreme wick (the first one
\* on ties): lowest low for EQH, highest high for EQL.
RECURSIVE VExtreme(_, _, _, _, _)
VExtreme(cs, walk, p, type, best) ==
  IF p > Len(walk) THEN best
  ELSE LET c == cs[walk[p] + 1]
           better == IF type = "EQH"
                       THEN best = None \/ c.low < best.low
                       ELSE best = None \/ c.high > best.high
       IN With(IF better THEN c ELSE best, LAMBDA next :
            VExtreme(cs, walk, p + 1, type, next))

\* The level object _validateAndBuild returns for a pair that passed its
\* checks; walk is the candles between the swings, vExtremeCandle the V candle.
LvBuild(type, firstSwing, secondSwing, walk, vExtremeCandle) ==
  [type |-> type,
   key |-> <<firstSwing.index, secondSwing.index, type>>,
   zoneTop |-> firstSwing.price,
   zoneBottom |-> firstSwing.keyPrice,
   zoneMidTwice |-> firstSwing.price + firstSwing.keyPrice,
   firstSwingIndex |-> firstSwing.index,
   firstSwingPrice |-> firstSwing.price,
   firstSwingKeyPrice |-> firstSwing.keyPrice,
   firstSwingDirection |-> firstSwing.direction,
   firstSwingTime |-> firstSwing.time,
   secondSwingIndex |-> secondSwing.index,
   secondSwingPrice |-> secondSwing.price,
   secondSwingKeyPrice |-> secondSwing.keyPrice,
   secondSwingDirection |-> secondSwing.direction,
   secondSwingTime |-> secondSwing.time,
   vShapeDepth |-> IF type = "EQH" THEN vExtremeCandle.low ELSE vExtremeCandle.high,
   vShapeIndex |-> vExtremeCandle.index,
   vShapeTime |-> vExtremeCandle.time,
   candlesBetween |-> Len(walk),
   preBreakoutVDepth |-> NullNum,
   preBreakoutVIndex |-> NullNum,
   preBreakoutVTime |-> NullNum,
   status |-> "active",
   brokenTime |-> NullNum,
   brokenIndex |-> NullNum,
   brokenBy |-> NullNum,
   brokenBosType |-> Null,
   sweptTime |-> NullNum,
   sweptIndex |-> NullNum,
   sweptBy |-> NullNum,
   lastCheckedIndex |-> NullNum,
   bias |-> None,
   time |-> secondSwing.time,
   confidence |-> LvConfidence("active", Null)]

\* EqhEqlEngine._validateAndBuild: None, or the new level.
_validateAndBuild(type, firstSwing, secondSwing, cs, allSwings) ==
  LET zoneTop == firstSwing.price
      zoneBottom == firstSwing.keyPrice
      vTargetType == IF type = "EQH" THEN "low" ELSE "high"
  IN IF ~LvIsValidSwing(firstSwing) \/ ~LvIsValidSwing(secondSwing) THEN None
     ELSE With(nextArrayIdx(cs, firstSwing.index), LAMBDA startIdx :
       IF startIdx = -1 THEN None
       ELSE With(BetweenPositions(cs, startIdx, secondSwing.index), LAMBDA walk :
         IF \E p \in 1..Len(walk) :
              IF type = "EQH" THEN cs[walk[p] + 1].high >= zoneBottom
                              ELSE cs[walk[p] + 1].low <= zoneTop
           THEN None
         ELSE IF walk = <<>> THEN None
         ELSE IF ~HasVShapeFrom(allSwings, 1, firstSwing, secondSwing, vTargetType) THEN None
         ELSE With(VExtreme(cs, walk, 1, type, None), LAMBDA vExtremeCandle :
                LvBuild(type, firstSwing, secondSwing, walk, vExtremeCandle))))

\* A classification whose window reaches one candle further
_classifyBosType_OneMore(level, cs, startK) ==
  With(candleIndexMapGet(cs, level.brokenIndex), LAMBDA breakArrayPos :
    LET last == Len(cs) - 1
        endIdx == IF last < breakArrayPos + MAX_BOS_SCAN_CANDLES + 1
                    THEN last ELSE breakArrayPos + MAX_BOS_SCAN_CANDLES + 1
    IN IF breakArrayPos = -1 THEN "BOS_CLOSE"
       ELSE IF \E k \in startK..endIdx :
                 IF level.type = "EQH" THEN cs[k + 1].close > level.brokenBy
                                       ELSE cs[k + 1].close < level.brokenBy
         THEN "BOS_SUSTAINED"
       ELSE "BOS_CLOSE")

\* EqhEqlEngine._classifyBosType
_classifyBosType(level, cs, startK) ==
  With(candleIndexMapGet(cs, level.brokenIndex), LAMBDA breakArrayPos :
    LET last == Len(cs) - 1
        endIdx == IF last < breakArrayPos + MAX_BOS_SCAN_CANDLES
                    THEN last ELSE breakArrayPos + MAX_BOS_SCAN_CANDLES
    IN IF breakArrayPos = -1 THEN "BOS_CLOSE"
       ELSE IF \E k \in startK..endIdx :
                 IF level.type = "EQH" THEN cs[k + 1].close > level.brokenBy
                                       ELSE cs[k + 1].close < level.brokenBy
         THEN "BOS_SUSTAINED"
       ELSE "BOS_CLOSE")

LvWickBreaches(level, candle) ==
  IF level.type = "EQH" THEN candle.high > level.zoneTop ELSE candle.low < level.zoneBottom

LvCloseBreaches(level, candle) ==
  IF level.type = "EQH" THEN candle.close > level.zoneTop ELSE candle.close < level.zoneBottom

\* A status step that derives the status from the current candle alone: broken
\* on a close beyond the zone, swept on a wick beyond it, active otherwise.
StatusStep_Stateless(level, cs, i) ==
  LET candle == cs[i + 1]
      seen == [level EXCEPT !.lastCheckedIndex = candle.index]
  IN IF LvCloseBreaches(seen, candle)
       THEN [seen EXCEPT !.status = "broken",
                         !.brokenTime = candle.time,
                         !.brokenIndex = candle.index,
                         !.brokenBy = candle.close,
                         !.brokenBosType = "BOS_CLOSE",
                         !.confidence = LvConfidence("broken", "BOS_CLOSE")]
     ELSE IF LvWickBreaches(seen, candle)
       THEN [seen EXCEPT !.status = "swept",
                         !.sweptTime = candle.time,
                         !.sweptIndex = candle.index,
                         !.confidence = LvConfidence("swept", Null)]
     ELSE [seen EXCEPT !.status = "active",
                       !.confidence = LvConfidence("active", Null)]

\* A status step that looks at the close first and tracks the adverse wick
\* only of a candle that does not break the level.
StatusStep_TrackAfter(level, cs, i) ==
  LET candle == cs[i + 1]
      deeper == IF level.type = "EQH" THEN candle.low < level.preBreakoutVDepth
                                      ELSE candle.high > level.preBreakoutVDepth
      seen == [level EXCEPT !.lastCheckedIndex = candle.index]
  IN IF LvCloseBreaches(seen, candle)
       THEN With([seen EXCEPT
                    !.status = "broken",
                    !.brokenTime = candle.time,
                    !.brokenIndex = candle.index,
                    !.brokenBy = candle.close],
                 LAMBDA broken :
                   With(_classifyBosType(broken, cs, i + 1), LAMBDA bosType :
                     [broken EXCEPT !.brokenBosType = bosType,
                                    !.confidence = LvConfidence("broken", bosType)]))
     ELSE With(IF level.status # "broken" /\ deeper
                 THEN [seen EXCEPT
                         !.preBreakoutVDepth =
                            IF level.type = "EQH" THEN candle.low ELSE candle.high,
                         !.preBreakoutVIndex = candle.index,
                         !.preBreakoutVTime = candle.time]
                 ELSE seen,
               LAMBDA tracked :
                 IF tracked.status = "active" /\ LvWickBreaches(tracked, candle)
                   THEN [tracked EXCEPT
                           !.status = "swept",
                           !.sweptTime = candle.time,
                           !.sweptIndex = candle.index,
                           !.sweptBy = IF level.type = "EQH" THEN candle.high ELSE candle.low,
                           !.confidence = LvConfidence("swept", tracked.brokenBosType)]
                 ELSE tracked)

\* One iteration of the loop of _checkLevelStatus, on the candle at 0-based
\* array position i.
StatusStep(level, cs, i) ==
  LET candle == cs[i + 1]
      deeper == IF level.type = "EQH" THEN candle.low < level.preBreakoutVDepth
                                      ELSE candle.high > level.preBreakoutVDepth
  IN With(IF level.status # "broken" /\ deeper
            THEN [level EXCEPT
                    !.lastCheckedIndex = candle.index,
                    !.preBreakoutVDepth =
                       IF level.type = "EQH" THEN candle.low ELSE candle.high,
                    !.preBreakoutVIndex = candle.index,
                    !.preBreakoutVTime = candle.time]
            ELSE [level EXCEPT !.lastCheckedIndex = candle.index],
          LAMBDA tracked :
            IF LvCloseBreaches(tracked, candle)
              THEN With([tracked EXCEPT
                           !.status = "broken",
                           !.brokenTime = candle.time,
                           !.brokenIndex = candle.index,
                           !.brokenBy = candle.close],
                        LAMBDA broken :
                          With(_classifyBosType(broken, cs, i + 1), LAMBDA bosType :
                            [broken EXCEPT !.brokenBosType = bosType,
                                           !.confidence = LvConfidence("broken", bosType)]))
            ELSE IF tracked.status = "active" /\ LvWickBreaches(tracked, candle)
              THEN [tracked EXCEPT
                      !.status = "swept",
                      !.sweptTime = candle.time,
                      !.sweptIndex = candle.index,
                      !.sweptBy = IF level.type = "EQH" THEN candle.high ELSE candle.low,
                      !.confidence = LvConfidence("swept", tracked.brokenBosType)]
            ELSE tracked)

\* The loop of _checkLevelStatus from array position i: it stops after the
\* candle that closes beyond the zone.
RECURSIVE StatusScan(_, _, _)
StatusScan(level, cs, i) ==
  IF i >= Len(cs) THEN level
  ELSE With(StatusStep(level, cs, i), LAMBDA next :
         IF LvCloseBreaches(next, cs[i + 1]) THEN next
         ELSE StatusScan(next, cs, i + 1))

\* EqhEqlEngine._checkLevelStatus
_checkLevelStatus(level, cs) ==
  With(nextArrayIdx(cs, IF level.lastCheckedIndex # NullNum
                          THEN level.lastCheckedIndex ELSE level.secondSwingIndex),
       LAMBDA startIdx :
         IF startIdx = -1 THEN level
         ELSE With(IF level.status # "broken" /\ level.preBreakoutVDepth = NullNum
                     THEN [level EXCEPT !.preBreakoutVDepth =
                             IF level.type = "EQH" THEN Infinity ELSE -Infinity]
                     ELSE level,
                   LAMBDA primed : StatusScan(primed, cs, startIdx)))

\* The state of the level engine for the key.  lastLevel and lastActiveLevel
\* alias level objects; they are kept as the key of the level they point at.
LvEmpty ==
  [store |-> <<>>, indexSet |-> {}, counts |-> LvZeroCounts,
   lastLevel |-> NoKey, lastActiveLevel |-> NoKey,
   lastSwingCount |-> [highs |-> 0, lows |-> 0]]

\* EqhEqlEngine._registerLevelCounts
_registerLevelCounts(counts, level) ==
  CounterInc(CounterInc(counts, IF level.type = "EQH" THEN "eqh" ELSE "eql"), level.status)

\* EqhEqlEngine._findLastActive
_findLastActive(store) ==
  With(LastOf({p \in 1..Len(store) : store[p].status = "active"}),
       LAMBDA p : IF p = -1 THEN NoKey ELSE store[p].key)

\* dataProcessorUtils.js sortedInsert: the binary search for the insertion
\* point (0-based lo, hi), comparator (a, b) => a.time - b.time.
RECURSIVE InsertionPoint(_, _, _, _)
InsertionPoint(array, item, lo, hi) ==
  IF lo >= hi THEN lo
  ELSE LET mid == (lo + hi) \div 2
       IN IF array[mid + 1].time - item.time <= 0
            THEN InsertionPoint(array, item, mid + 1, hi)
            ELSE InsertionPoint(array, item, lo, mid)

sortedInsert(array, item) ==
  With(InsertionPoint(array, item, 0, Len(array)), LAMBDA lo :
    SubSeq(array, 1, lo) \o <<item>> \o SubSeq(array, lo + 1, Len(array)))

SeqKeys(levels) == {levels[p].key : p \in 1..Len(levels)}

\* Array.prototype.findIndex(l => (now - l.time) <= maxAgeMs), -1 if none
KeepFromIdx(arr, now) ==
  FirstOf({p \in 0..(Len(arr) - 1) : now - arr[p + 1].time <= MAX_LEVEL_AGE_MS})

\* The count half of _insertSorted: the oldest levels beyond
\* MAX_LEVELS_PER_SYMBOL leave the store and the duplicate set.
LvPruneCount(st) ==
  LET over == Len(st.store) - MAX_LEVELS_PER_SYMBOL
  IN IF MAX_LEVELS_PER_SYMBOL > 0 /\ over > 0
       THEN [st EXCEPT !.store = SubSeq(st.store, over + 1, Len(st.store)),
                       !.indexSet = @ \ SeqKeys(SubSeq(st.store, 1, over))]
       ELSE st

\* The age half of _insertSorted: the levels before the first one that is
\* young enough leave the store and the duplicate set.
LvPruneAge(st, now) ==
  With(KeepFromIdx(st.store, now), LAMBDA keepFromIdx :
    IF MAX_LEVEL_AGE_MS > 0 /\ keepFromIdx > 0
      THEN [st EXCEPT !.store = SubSeq(st.store, keepFromIdx + 1, Len(st.store)),
                      !.indexSet = @ \ SeqKeys(SubSeq(st.store, 1, keepFromIdx))]
      ELSE st)

\* EqhEqlEngine._insertSorted: the store and the duplicate set it leaves.
_insertSorted(st, level, now) ==
  With([st EXCEPT !.store = sortedInsert(st.store, level)], LAMBDA inserted :
    With(LvPruneCount(inserted), LAMBDA counted : LvPruneAge(counted, now)))

\* The candidate test of detectAll / detectLatest on an ordered pair
IsCandidate_Exclusive(type, firstSwing, secondSwing) ==
  IF type = "EQH"
    THEN secondSwing.price < firstSwing.price /\ secondSwing.price > firstSwing.keyPrice
    ELSE secondSwing.price > firstSwing.price /\ secondSwing.price < firstSwing.keyPrice

IsCandidate(type, firstSwing, secondSwing) ==
  IF type = "EQH"
    THEN ~(secondSwing.price > firstSwing.price) /\ ~(secondSwing.price < firstSwing.keyPrice)
    ELSE ~(secondSwing.price < firstSwing.price) /\ ~(secondSwing.price > firstSwing.keyPrice)

\* The body of the inner loops: None when the pair is skipped, else the level
\* with its bias tag and its status brought up to the last candle.
NewLevel(st, type, firstSwing, secondSwing, cs, allSwings, bo) ==
  IF ~IsCandidate(type, firstSwing, secondSwing) THEN None
  ELSE IF LevelKey(firstSwing, secondSwing, type) \in st.indexSet THEN None
  ELSE With(_validateAndBuild(type, firstSwing, secondSwing, cs, allSwings), LAMBDA level :
         IF level = None THEN None
         ELSE With([level EXCEPT !.bias = getCurrentBias(bo)], LAMBDA tagged :
                _checkLevelStatus(tagged, cs)))

\* detectAll, loops `for i ... for j = i + 1 ...` over the swings of one type
\* (1-based positions here), from the pair (i, j) on.
RECURSIVE LvScanAll(_, _, _, _, _, _, _, _)
LvScanAll(st, type, list, i, j, cs, allSwings, bo) ==
  IF i > Len(list) - 1 THEN st
  ELSE IF j > Len(list) THEN LvScanAll(st, type, list, i + 1, i + 2, cs, allSwings, bo)
  ELSE With(NewLevel(st, type, list[i], list[j], cs, allSwings, bo), LAMBDA level :
         With(IF level = None THEN st
              ELSE [st EXCEPT !.counts = _registerLevelCounts(@, level),
                              !.store = Append(@, level),
                              !.indexSet = @ \cup {level.key}],
              LAMBDA next : LvScanAll(next, type, list, i, j + 1, cs, allSwings, bo)))

Highs(swings) == SelectSeq(swings, LAMBDA sw : sw.type = "high")
Lows(swings) == SelectSeq(swings, LAMBDA sw : sw.type = "low")

\* EqhEqlEngine.detectAll on the engine state old: the state it leaves.
EqhEqlDetectAll(old, swings, bo, cs) ==
  IF cs = <<>> THEN old
  ELSE IF swings = <<>> THEN LvEmpty
  ELSE With(Highs(swings), LAMBDA highs : With(Lows(swings), LAMBDA lows :
         With(LvScanAll(LvEmpty, "EQH", highs, 1, 2, cs, swings, bo), LAMBDA eqh :
           With(LvScanAll(eqh, "EQL", lows, 1, 2, cs, swings, bo), LAMBDA both :
             With(SortByTime(both.store), LAMBDA sorted :
               [both EXCEPT
                  !.store = sorted,
                  !.lastLevel = IF sorted = <<>> THEN NoKey ELSE sorted[Len(sorted)].key,
                  !.lastActiveLevel = IF sorted = <<>> THEN NoKey
                                      ELSE _findLastActive(sorted),
                  !.lastSwingCount = [highs |-> Len(highs), lows |-> Len(lows)]])))))

\* The body of the inner loop of detectLatest for a pair that gave a level:
\* _registerLevelCounts, _updateLastLevel, _insertSorted, _registerLevel.
LvRecordLatest(st, level, now) ==
  With(_insertSorted([st EXCEPT
                        !.counts = _registerLevelCounts(@, level),
                        !.lastLevel = level.key,
                        !.lastActiveLevel = IF level.status = "active" THEN level.key ELSE @],
                     level, now),
       LAMBDA inserted : [inserted EXCEPT !.indexSet = @ \cup {level.key}])

\* detectLatest, loops `for j = start ... for i = 0 ... j - 1` (1-based
\* positions here), from the pair (i, j) on.  acc carries the engine state and
\* the keys of the levels created by this call.
RECURSIVE LvScanLatest(_, _, _, _, _, _, _, _, _)
LvScanLatest(acc, type, list, j, i, cs, allSwings, bo, now) ==
  IF j > Len(list) THEN acc
  ELSE IF i >= j THEN LvScanLatest(acc, type, list, j + 1, 1, cs, allSwings, bo, now)
  ELSE With(NewLevel(acc.st, type, list[i], list[j], cs, allSwings, bo), LAMBDA level :
         With(IF level = None THEN acc
              ELSE [st |-> LvRecordLatest(acc.st, level, now),
                    newKeys |-> acc.newKeys \cup {level.key}],
              LAMBDA next : LvScanLatest(next, type, list, j, i + 1, cs, allSwings, bo, now)))

\* A pass that never re-evaluates the broken levels
_upgradePendingBosTypes_Never(store, cs, newLevelKeys) == store

\* A pass that upgrades the kind of break and leaves the confidence as it was
_upgradePendingBosTypes_StaleConfidence(store, cs, newLevelKeys) ==
  With(_upgradePendingBosTypes_Never(store, cs, newLevelKeys), LAMBDA before :
    [p \in 1..Len(before) |->
       LET level == before[p]
       IN IF level.status # "broken" \/ level.brokenBosType # "BOS_CLOSE"
             \/ level.key \in newLevelKeys
            THEN level
          ELSE With(nextArrayIdx(cs, level.brokenIndex), LAMBDA startK :
                 IF startK = -1 THEN level
                 ELSE IF _classifyBosType(level, cs, startK) = "BOS_SUSTAINED"
                   THEN [level EXCEPT !.brokenBosType = "BOS_SUSTAINED"]
                 ELSE level)])

\* EqhEqlEngine._upgradePendingBosTypes
_upgradePendingBosTypes(store, cs, newLevelKeys) ==
  [p \in 1..Len(store) |->
     LET level == store[p]
     IN IF level.status # "broken" \/ level.brokenBosType # "BOS_CLOSE"
           \/ level.key \in newLevelKeys
          THEN level
        ELSE With(nextArrayIdx(cs, level.brokenIndex), LAMBDA startK :
               IF startK = -1 THEN level
               ELSE IF _classifyBosType(level, cs, startK) = "BOS_SUSTAINED"
                 THEN [level EXCEPT !.brokenBosType = "BOS_SUSTAINED",
                                    !.confidence = LvConfidence("broken", "BOS_SUSTAINED")]
               ELSE level)]

\* The body of the loop of _updateActiveStatuses for the level at position p.
LvStepStatus(acc, p, cs) ==
  LET level == acc.st.store[p]
  IN With(_checkLevelStatus(level, cs), LAMBDA after :
       LET fromActive == level.status = "active" /\ after.status \in {"swept", "broken"}
           counts == IF level.status = "active" /\ after.status = "swept"
                       THEN CounterInc(CounterDec(acc.st.counts, "active"), "swept")
                     ELSE IF level.status = "active" /\ after.status = "broken"
                       THEN CounterInc(CounterDec(acc.st.counts, "active"), "broken")
                     ELSE IF level.status = "swept" /\ after.status = "broken"
                       THEN CounterInc(CounterDec(acc.st.counts, "swept"), "broken")
                     ELSE acc.st.counts
       IN [st |-> [acc.st EXCEPT !.store[p] = after, !.counts = counts],
           invalidated |-> acc.invalidated
              \/ (fromActive /\ acc.st.lastActiveLevel = level.key)])

\* The loop of _updateActiveStatuses over the store from position p; acc
\* carries the engine state and the activeCacheInvalidated flag.
RECURSIVE LvScanStatuses(_, _, _, _)
LvScanStatuses(acc, p, cs, newLevelKeys) ==
  IF p > Len(acc.st.store) THEN acc
  ELSE With(IF acc.st.store[p].status = "broken" \/ acc.st.store[p].key \in newLevelKeys
              THEN acc ELSE LvStepStatus(acc, p, cs),
            LAMBDA next : LvScanStatuses(next, p + 1, cs, newLevelKeys))

\* EqhEqlEngine._updateActiveStatuses
_updateActiveStatuses(st, cs, newLevelKeys) ==
  With(IF st.counts["active"] > 0 \/ st.counts["swept"] > 0
         THEN LvScanStatuses([st |-> st, invalidated |-> FALSE], 1, cs, newLevelKeys)
         ELSE [st |-> st, invalidated |-> FALSE],
       LAMBDA scanned :
         With(IF scanned.invalidated
                THEN [scanned.st EXCEPT !.lastActiveLevel = _findLastActive(scanned.st.store)]
                ELSE scanned.st,
              LAMBDA cached :
                [cached EXCEPT !.store = _upgradePendingBosTypes(cached.store, cs, newLevelKeys)]))

\* EqhEqlEngine._repairCachesIfNeeded
_repairCachesIfNeeded(st) ==
  IF st.store = <<>> THEN st
  ELSE [st EXCEPT
          !.lastLevel = IF st.lastLevel = NoKey THEN st.store[Len(st.store)].key ELSE @,
          !.lastActiveLevel = IF st.lastActiveLevel = NoKey
                                THEN _findLastActive(st.store) ELSE @]

\* The new-pair scans of detectLatest over the highs from pair (1, fromHigh)
\* and the lows from pair (1, fromLow), then the status pass and the repair.
LvLatestFrom(old, fromHigh, fromLow, swings, bo, cs, now) ==
  With(Highs(swings), LAMBDA highs : With(Lows(swings), LAMBDA lows :
    With(LvScanLatest([st |-> old, newKeys |-> {}], "EQH", highs, fromHigh, 1,
                      cs, swings, bo, now),
         LAMBDA eqh :
           With(LvScanLatest(eqh, "EQL", lows, fromLow, 1, cs, swings, bo, now),
                LAMBDA both :
                  With([both.st EXCEPT !.lastSwingCount =
                          [highs |-> Len(highs), lows |-> Len(lows)]],
                       LAMBDA counted :
                         With(_updateActiveStatuses(counted, cs, both.newKeys),
                              LAMBDA updated : _repairCachesIfNeeded(updated)))))))

\* An incremental detection that forgets what it has already paired: it scans
\* every pair again, with an empty duplicate set.
EqhEqlDetectLatest_Rescan(old, swings, bo, cs, now) ==
  IF cs = <<>> \/ swings = <<>> THEN old
  ELSE LvLatestFrom([old EXCEPT !.indexSet = {}], 1, 1, swings, bo, cs, now)

\* EqhEqlEngine.detectLatest on the engine state old: the state it leaves.
EqhEqlDetectLatest(old, swings, bo, cs, now) ==
  IF cs = <<>> \/ swings = <<>> THEN old
  ELSE LvLatestFrom(old, old.lastSwingCount.highs + 1, old.lastSwingCount.lows + 1,
                    swings, bo, cs, now)

\* The keys of the levels a detectLatest on the engine state old creates: its
\* newLevels, which decide whether the call saves.
LvNewKeys(old, swings, bo, cs, now) ==
  IF cs = <<>> \/ swings = <<>> THEN {}
  ELSE With(LvScanLatest([st |-> old, newKeys |-> {}], "EQH", Highs(swings),
                         old.lastSwingCount.highs + 1, 1, cs, swings, bo, now),
            LAMBDA eqh :
              LvScanLatest(eqh, "EQL", Lows(swings), old.lastSwingCount.lows + 1, 1,
                           cs, swings, bo, now).newKeys)

\* ------------------------------------------------------------------ persistence
\* No file for the key in dataDir; no restarted process
NoRecord == [saved |-> FALSE]
NoEngine == [restarted |-> FALSE]
\* No _loadFromDisk is awaiting its readFile
NoLoad == [pending |-> FALSE]

\* JSON.stringify then JSON.parse of a level: a number that is not finite
\* comes back as null, every other modelled field as it was.
JsonLevel(level) ==
  [level EXCEPT !.preBreakoutVDepth = IF @ = Infinity \/ @ = -Infinity THEN NullNum ELSE @]

\* EqhEqlEngine._saveToDisk: the record written for the engine state st, as
\* a later read parses it.
_saveToDisk(st) ==
  [saved |-> TRUE,
   store |-> [p \in 1..Len(st.store) |-> JsonLevel(st.store[p])],
   lastSwingCount |-> st.lastSwingCount]

\* The loop of _loadFromDisk over data.store from position p:
\* _registerLevel and _registerLevelCounts of each level.
RECURSIVE LvRegisterAll(_, _, _)
LvRegisterAll(st, store, p) ==
  IF p > Len(store) THEN st
  ELSE LvRegisterAll([st EXCEPT !.indexSet = @ \cup {store[p].key},
                                !.counts = _registerLevelCounts(@, store[p])],
                     store, p + 1)

\* A restore that takes the record's store and forgets its swing counts
_loadFromDisk_NoSwingCount(st, record) ==
  IF record = NoRecord THEN st
  ELSE _repairCachesIfNeeded(
         LvRegisterAll([st EXCEPT !.store = record.store], record.store, 1))

\* EqhEqlEngine._loadFromDisk into the engine state st: the state it leaves
\* (st itself when the file does not exist).
_loadFromDisk(st, record) ==
  IF record = NoRecord THEN st
  ELSE _repairCachesIfNeeded(
         LvRegisterAll([st EXCEPT !.store = record.store,
                                  !.lastSwingCount = record.lastSwingCount],
                       record.store, 1))

\* ------------------------------------------------------------------ setup.js
\* No setup query is being answered
NoSetups == [returned |-> FALSE, list |-> <<>>]

\* candleIndexMap.get(index) as a 1-based array position, 0 for undefined
ArrayPos(cs, index) ==
  With(LastOf({p \in 1..Len(cs) : cs[p].index = index}), LAMBDA p : IF p = -1 THEN 0 ELSE p)

\* The loops `if (candle.low < minLow)` / `if (candle.high > maxHigh)` over the
\* array positions from..to: the first candle with the lowest low, or the
\* highest high; 0 when the range is empty.
FirstLowest(cs, from, to) ==
  With(FirstOf({p \in from..to : \A q \in from..to : cs[p].low <= cs[q].low}),
       LAMBDA p : IF p = -1 THEN 0 ELSE p)
FirstHighest(cs, from, to) ==
  With(FirstOf({p \in from..to : \A q \in from..to : cs[p].high >= cs[q].high}),
       LAMBDA p : IF p = -1 THEN 0 ELSE p)

\* A loop body that scans every candle after the breaking candle for the
\* pullback, whatever their number.
BuildSetup_Unbounded(level, cs) ==
  With(ArrayPos(cs, level.brokenIndex), LAMBDA breakPos :
    With(IF breakPos = 0 THEN 0
         ELSE IF level.type = "EQH" THEN FirstLowest(cs, breakPos + 1, Len(cs))
                                    ELSE FirstHighest(cs, breakPos + 1, Len(cs)),
         LAMBDA extreme :
      With(ArrayPos(cs, level.vShapeIndex), LAMBDA vShapePos :
        With(IF vShapePos # 0 /\ extreme # 0 /\ vShapePos < extreme
               THEN (IF level.type = "EQH" THEN FirstHighest(cs, vShapePos + 1, extreme - 1)
                                           ELSE FirstLowest(cs, vShapePos + 1, extreme - 1))
               ELSE 0,
             LAMBDA impulse :
          [level |-> level,
           setupVshapeDepth |-> IF extreme = 0 THEN NullNum
                                ELSE IF level.type = "EQH" THEN cs[extreme].low
                                                           ELSE cs[extreme].high,
           setupVshapeTime |-> IF extreme = 0 THEN NullNum ELSE cs[extreme].time,
           setupVshapeIndex |-> IF extreme = 0 THEN NullNum ELSE cs[extreme].index,
           impulseExtremeDepth |-> IF impulse = 0 THEN NullNum
                                   ELSE IF level.type = "EQH" THEN cs[impulse].high
                                                              ELSE cs[impulse].low,
           impulseExtremeTime |-> IF impulse = 0 THEN NullNum ELSE cs[impulse].time,
           impulseExtremeIndex |-> IF impulse = 0 THEN NullNum ELSE cs[impulse].index]))))

\* The body of the loop of getSetups for one broken level
BuildSetup(level, cs) ==
  With(ArrayPos(cs, level.brokenIndex), LAMBDA breakPos :
    With(IF breakPos = 0 THEN 0
         ELSE With(IF Len(cs) < breakPos + MAX_SETUP_SCAN_CANDLES
                     THEN Len(cs) ELSE breakPos + MAX_SETUP_SCAN_CANDLES,
                   LAMBDA scanEnd :
                     IF level.type = "EQH" THEN FirstLowest(cs, breakPos + 1, scanEnd)
                                           ELSE FirstHighest(cs, breakPos + 1, scanEnd)),
         LAMBDA extreme :
      With(ArrayPos(cs, level.vShapeIndex), LAMBDA vShapePos :
        With(IF vShapePos # 0 /\ extreme # 0 /\ vShapePos < extreme
               THEN (IF level.type = "EQH" THEN FirstHighest(cs, vShapePos + 1, extreme - 1)
                                           ELSE FirstLowest(cs, vShapePos + 1, extreme - 1))
               ELSE 0,
             LAMBDA impulse :
          [level |-> level,
           setupVshapeDepth |-> IF extreme = 0 THEN NullNum
                                ELSE IF level.type = "EQH" THEN cs[extreme].low
                                                           ELSE cs[extreme].high,
           setupVshapeTime |-> IF extreme = 0 THEN NullNum ELSE cs[extreme].time,
           setupVshapeIndex |-> IF extreme = 0 THEN NullNum ELSE cs[extreme].index,
           impulseExtremeDepth |-> IF impulse = 0 THEN NullNum
                                   ELSE IF level.type = "EQH" THEN cs[impulse].high
                                                              ELSE cs[impulse].low,
           impulseExtremeTime |-> IF impulse = 0 THEN NullNum ELSE cs[impulse].time,
           impulseExtremeIndex |-> IF impulse = 0 THEN NullNum ELSE cs[impulse].index]))))

\* EqhEqlEngine.getBroken
getBroken(store) == SelectSeq(store, LAMBDA l : l.status = "broken")

\* A setup query that builds a setup for every level of the store
getSetups_AllLevels(store, cs) ==
  IF cs = <<>> THEN <<>> ELSE [p \in 1..Len(store) |-> BuildSetup(store[p], cs)]

\* SetupEngine.getSetups on the level store and the candles of the key; the
\* fields of the level (`...level`) are kept together as the field level.
getSetups(store, cs) ==
  With(getBroken(store), LAMBDA brokenLevels :
    IF brokenLevels = <<>> THEN <<>>
    ELSE IF cs = <<>> THEN <<>>
    ELSE [p \in 1..Len(brokenLevels) |-> BuildSetup(brokenLevels[p], cs)])
\* BreakoutEngine.getSummary on the engine state of the key (counts and total)
BoGetSummary(st) ==
  [total |-> Len(st.store),
   sustained |-> st.counts.sustained, close |-> st.counts.close, wick |-> st.counts.wick,
   bullish |-> st.counts.bullish, bearish |-> st.counts.bearish,
   choch |-> st.counts.choch, bos |-> st.counts.bos]

\* EqhEqlEngine.getLatest / getLatestActive on the engine state of the key:
\* the key of the level the cache points at, NoKey for null
getLatest(st) == st.lastLevel
getLatestActive(st) == st.lastActiveLevel

\* EqhEqlEngine.getSummary on the engine state of the key (counts and total)
getSummary(st) ==
  [total |-> Len(st.store),
   eqh |-> st.counts.eqh, eql |-> st.counts.eql,
   active |-> st.counts.active, broken |-> st.counts.broken, swept |-> st.counts.swept]

\* ------------------------------------------------------------------ state
VARIABLES
  candles,        \* signalEngine candleStore[symbol][granularity], with index
  feed,           \* the shapes the feed delivers in this behaviour
  mirror,         \* TRUE when the feed delivers the shapes upside down
  strength,       \* the strength argument the swing engine is called with
  phase,          \* which engine the closed candle has still to pass through
  swings,         \* SwingEngine.store[symbol][granularity]
  swingIndexSet,  \* SwingEngine.indexSets[symbol][granularity]
  bo,             \* BreakoutEngine state of the key (see BoEmpty)
  lv,             \* EqhEqlEngine state of the key (see LvEmpty)
  locks,          \* engine.locks: lock key -> the caller whose promise it holds, 0 for none
  pc,             \* where each caller of a locked operation stands
  call,           \* the operation each caller asked for: symbol, granularity, op
  waiters,        \* per caller holding a lock, the callers awaiting its promise, in order
  microtasks,     \* continuations the event loop runs next, in order
  writes,         \* per caller, the state of the _saveToDisk its operation started
  requests,       \* the callers that called _withLock and have not entered fn yet,
                  \* in the order of their calls
  version,        \* per key, the run that last wrote this.store and this.counts
  seen,           \* what the client query being answered has read
  setups,         \* what the setup query being answered returns
  disk,           \* the record of the key in the level engine's dataDir
  restored,       \* the level engine of a process restarted from that record
  loading         \* the readFile of a _loadFromDisk that has not settled yet

pipeVars == <<candles, feed, mirror, strength, phase, swings, swingIndexSet, bo, lv, setups,
              disk, restored, loading>>
lockVars == <<locks, pc, call, waiters, microtasks, writes, requests, version, seen>>
vars == <<pipeVars, setups, lockVars>>

\* ------------------------------------------------------------------ _withLock
\* Concurrent callers of the locked operations of one engine.
NumCallers == 3
Callers == 1..NumCallers

Symbols == {"R_75"}
Granularities == {60, 300}
Ops == {"detectAll", "detectLatest"}
NoCall == [symbol |-> "", granularity |-> 0, op |-> ""]

\* A lock keyed on the symbol alone.
LockKey_SymbolOnly(symbol, granularity) == <<symbol, 0>>

\* const key = `${symbol}_${granularity}`
LockKey(symbol, granularity) == <<symbol, granularity>>

LockKeys == {LockKey(s, g) : s \in Symbols, g \in Granularities}

\* The (symbol, granularity) whose store, sets and counts the operation of
\* caller c reads and writes.
StateKey(c) == <<call[c].symbol, call[c].granularity>>

\* Successive runs on one key are told apart by a mark that each run flips.
NoQuery == [key |-> <<>>, store |-> FALSE, counts |-> FALSE]

\* A detection that has replaced the list but not yet the counts.
RunDetection_StoreFirst(v) ==
  [store |-> ~v.store, counts |-> v.counts]

\* The body of fn up to its first await: the store list and the counts of the
\* key are both rewritten by this run.
RunDetection(v) ==
  [store |-> ~v.store, counts |-> ~v.store]

InitLocks ==
  /\ locks = [k \in LockKeys |-> 0]
  /\ pc = [c \in Callers |-> "idle"]
  /\ call = [c \in Callers |-> NoCall]
  /\ waiters = [c \in Callers |-> <<>>]
  /\ microtasks = <<>>
  /\ writes = [c \in Callers |-> "none"]
  /\ requests = <<>>
  /\ version = [k \in LockKeys |-> [store |-> FALSE, counts |-> FALSE]]
  /\ seen = NoQuery

InitEngines ==
  /\ candles = <<>>
  /\ phase = "idle"
  /\ swings = <<>>
  /\ swingIndexSet = {}
  /\ bo = BoEmpty
  /\ lv = LvEmpty
  /\ setups = NoSetups
  /\ disk = NoRecord
  /\ restored = NoEngine
  /\ loading = NoLoad
  /\ InitLocks

Init ==
  /\ InitEngines
  /\ feed = Shapes
  /\ mirror \in BOOLEAN
  /\ strength = 1

\* updateLiveCandle: a bar of a new open time arrives, which closes the bar
\* before it; the closed bars are what the engines are given.
FeedCandle(first) ==
  /\ phase = "idle"
  /\ Len(candles) < MaxCandles
  /\ \E s \in feed :
       candles' = Append(candles, MakeCandle(IF mirror THEN Flip(s) ELSE s, Len(candles)))
  /\ phase' = first
  /\ UNCHANGED <<feed, mirror, strength, swings, swingIndexSet, bo, lv, setups, disk, restored, loading,
                 lockVars>>

\* SwingEngine.detectLatest(symbol, granularity, candles, strength)
SwingLatest(then) ==
  /\ phase = "swings"
  /\ swings' = SwingDetectLatestStore(swings, swingIndexSet, candles, strength)
  /\ swingIndexSet' = swingIndexSet \cup SwingKeys(swings')
  /\ phase' = then
  /\ UNCHANGED <<candles, feed, mirror, strength, bo, lv, setups, disk, restored, loading,
                 lockVars>>

\* BreakoutEngine.detectLatest(symbol, granularity, candles)
BreakoutLatest ==
  /\ phase = "breakouts"
  /\ bo' = BreakoutDetectLatest(bo, swings, candles)
  /\ phase' = "levels"
  /\ UNCHANGED <<candles, feed, mirror, strength, swings, swingIndexSet, lv, setups, disk, restored, loading,
                 lockVars>>

\* EqhEqlEngine.detectLatest(symbol, granularity, candles)
LevelLatest ==
  /\ phase = "levels"
  /\ lv' = EqhEqlDetectLatest(lv, swings, bo, candles, DateNow(Len(candles)))
  /\ disk' = IF LvNewKeys(lv, swings, bo, candles, DateNow(Len(candles))) # {}
               THEN _saveToDisk(lv') ELSE disk
  /\ restored' = IF restored = NoEngine THEN restored
                   ELSE EqhEqlDetectLatest(restored, swings, bo, candles, DateNow(Len(candles)))
  /\ phase' = "idle"
  /\ UNCHANGED <<candles, feed, mirror, strength, swings, swingIndexSet, bo, setups, loading,
                 lockVars>>

\* SwingEngine.detectAll(symbol, granularity, candles, strength)
SwingAll ==
  /\ phase = "idle"
  /\ swings' = SwingDetectAllStore(swings, candles, strength)
  /\ swingIndexSet' = IF Len(candles) < strength * 2 + 1
                        THEN swingIndexSet ELSE SwingKeys(swings')
  /\ UNCHANGED <<candles, feed, mirror, strength, phase, bo, lv, setups, disk, restored, loading,
                 lockVars>>

\* BreakoutEngine.detectAll(symbol, granularity, candles)
BreakoutAll ==
  /\ phase = "idle"
  /\ bo' = BreakoutDetectAll(swings, candles)
  /\ UNCHANGED <<candles, feed, mirror, strength, phase, swings, swingIndexSet, lv, setups, disk, restored, loading,
                 lockVars>>

\* EqhEqlEngine.detectAll(symbol, granularity, candles): the forced
\* re-detection of POST /eqheql/redetect
LevelAll ==
  /\ phase = "idle"
  /\ lv' = EqhEqlDetectAll(lv, swings, bo, candles)
  /\ disk' = IF candles = <<>> \/ swings = <<>> THEN disk ELSE _saveToDisk(lv')
  /\ UNCHANGED <<candles, feed, mirror, strength, phase, swings, swingIndexSet, bo, setups,
                 restored, loading, lockVars>>

Next ==
  \/ FeedCandle("swings")
  \/ SwingLatest("breakouts")
  \/ BreakoutLatest
  \/ LevelLatest
  \/ SwingAll
  \/ BreakoutAll
  \/ LevelAll

Spec == Init /\ [][Next]_vars

\* The swing engine alone, fed one closed candle at a time from an empty
\* store, for every strength up to MaxStrength, insane bars included.
InitSwing ==
  /\ InitEngines
  /\ feed = SwingShapes
  /\ mirror = FALSE
  /\ strength \in 1..MaxStrength

NextSwing ==
  \/ FeedCandle("swings")
  \/ SwingLatest("idle")

SpecSwing == InitSwing /\ [][NextSwing]_vars

\* The swing engine given candles that did not pass the feed's filter: bars
\* with high < low and bars with the open above the high among them, full and
\* incremental detections, for every strength up to MaxStrength.
InitSwingUnfiltered ==
  /\ InitEngines
  /\ feed = {ShapeA, ShapeB, ShapeX, ShapeY}
  /\ mirror = FALSE
  /\ strength \in 1..MaxStrength

NextSwingUnfiltered ==
  \/ NextSwing
  \/ SwingAll

SpecSwingUnfiltered == InitSwingUnfiltered /\ [][NextSwingUnfiltered]_vars

\* The swing engine fed the closed candles of the feed, which has dropped the
\* insane bars, for every strength up to MaxStrength.
InitSwingFeed ==
  /\ InitEngines
  /\ feed = {ShapeA, ShapeB, ShapeS, ShapeK}
  /\ mirror = FALSE
  /\ strength \in 1..MaxStrength

SpecSwingFeed == InitSwingFeed /\ [][NextSwing]_vars

\* The three engines fed one closed candle at a time from empty stores, with
\* no full detection in between.
NextIncremental ==
  \/ FeedCandle("swings")
  \/ SwingLatest("breakouts")
  \/ BreakoutLatest
  \/ LevelLatest

SpecIncremental == Init /\ [][NextIncremental]_vars


\* A longer history from a feed of four shapes: long enough for a level to
\* form, be broken and leave its whole window of MAX_BOS_SCAN_CANDLES behind.
MaxHistory == MaxCandles + MAX_BOS_SCAN_CANDLES

FeedHistory ==
  /\ phase = "idle"
  /\ Len(candles) < MaxHistory
  /\ \E s \in feed :
       candles' = Append(candles, MakeCandle(IF mirror THEN Flip(s) ELSE s, Len(candles)))
  /\ phase' = "swings"
  /\ UNCHANGED <<feed, mirror, strength, swings, swingIndexSet, bo, lv, setups, disk, restored, loading,
                 lockVars>>

InitHistory ==
  /\ InitEngines
  /\ feed = {ShapeA, ShapeB, ShapeK, ShapeU}
  /\ mirror = FALSE
  /\ strength = 1

NextHistory ==
  \/ FeedHistory
  \/ SwingLatest("breakouts")
  \/ BreakoutLatest
  \/ LevelLatest

SpecHistory == InitHistory /\ [][NextHistory]_vars

\* The swing engine run incrementally on every closed candle and the level
\* engine on some of them only: a detectLatest of the level engine then meets
\* several new swings of both types at once.
InitCatchUp ==
  /\ InitEngines
  /\ feed = {ShapeA, ShapeB}
  /\ mirror = FALSE
  /\ strength = 1

NextCatchUp ==
  \/ FeedHistory
  \/ SwingLatest("idle")
  \/ SwingLatest("levels")
  \/ LevelLatest

SpecCatchUp == InitCatchUp /\ [][NextCatchUp]_vars

\* GET /setups/:symbol/:granularity: the route calls getSetups, which reads
\* the level store and the indexed candles; it may be served between any two
\* passes of the engines.
GetSetups ==
  /\ setups = NoSetups
  /\ setups' = [returned |-> TRUE, list |-> getSetups(lv.store, candles)]
  /\ UNCHANGED <<candles, feed, mirror, strength, phase, swings, swingIndexSet, bo, lv, disk, restored, loading,
                 lockVars>>

\* sendSuccess: the response leaves with the setups
SendSetups ==
  /\ setups # NoSetups
  /\ setups' = NoSetups
  /\ UNCHANGED <<candles, feed, mirror, strength, phase, swings, swingIndexSet, bo, lv, disk, restored, loading,
                 lockVars>>

\* The three engines fed one closed candle at a time, with setup queries
\* answered between their passes (the route is synchronous: no pass runs
\* while it builds its answer).
InitSetup ==
  /\ InitEngines
  /\ feed = {ShapeA, ShapeB, ShapeK, ShapeU}
  /\ mirror \in BOOLEAN
  /\ strength = 1

NextSetup ==
  \/ setups = NoSetups /\ NextIncremental
  \/ GetSetups
  \/ SendSetups

SpecSetup == InitSetup /\ [][NextSetup]_vars

\* The longer history from three shapes and their mirror images, with setup
\* queries answered between the passes: long enough for candles to follow
\* the MAX_SETUP_SCAN_CANDLES after a breaking candle.
InitSetupHistory ==
  /\ InitEngines
  /\ feed = {ShapeA, ShapeB, ShapeK}
  /\ mirror \in BOOLEAN
  /\ strength = 1

NextSetupHistory ==
  \/ setups = NoSetups /\ NextHistory
  \/ GetSetups
  \/ SendSetups

SpecSetupHistory == InitSetupHistory /\ [][NextSetupHistory]_vars

\* GET /swings/:symbol/:granularity?strength=k: swingEngine.detectAll on the
\* closed candles with the strength of the request
SwingAllWith(k) ==
  /\ phase = "idle"
  /\ strength' = k
  /\ swings' = SwingDetectAllStore(swings, candles, k)
  /\ swingIndexSet' = IF Len(candles) < k * 2 + 1
                        THEN swingIndexSet ELSE SwingKeys(swings')
  /\ UNCHANGED <<candles, feed, mirror, phase, bo, lv, setups, disk, restored, loading,
                 lockVars>>

\* Full detections only, requested at any time between the closed candles of
\* a feed of three shapes, the swing detection with any strength up to
\* MaxStrength.
InitRedetect ==
  /\ InitEngines
  /\ feed = {ShapeA, ShapeB, ShapeK}
  /\ mirror = FALSE
  /\ strength = 1

NextRedetect ==
  \/ FeedCandle("idle")
  \/ \E k \in 1..MaxStrength : SwingAllWith(k)
  \/ BreakoutAll
  \/ LevelAll

SpecRedetect == InitRedetect /\ [][NextRedetect]_vars

\* ensureLevelsLoaded of the level routes, when the level store is empty: full
\* detections on the candle store as it is, its last bar being the one still
\* forming; the swing and breakout detections only if their stores are empty.
EnsureLevelsLoaded ==
  /\ phase = "idle"
  /\ lv.store = <<>>
  /\ \E s \in feed :
       \E all \in {Append(candles, MakeCandle(IF mirror THEN Flip(s) ELSE s, Len(candles)))} :
         /\ swings' = IF swings = <<>> THEN SwingDetectAllStore(swings, all, 1) ELSE swings
         /\ swingIndexSet' = IF swings = <<>> /\ Len(all) >= 3
                               THEN SwingKeys(swings') ELSE swingIndexSet
         /\ bo' = IF bo.store = <<>> THEN BreakoutDetectAll(swings', all) ELSE bo
         /\ lv' = EqhEqlDetectAll(lv, swings', bo', all)
         /\ disk' = IF swings' = <<>> THEN disk ELSE _saveToDisk(lv')
  /\ strength' = IF swings = <<>> THEN 1 ELSE strength
  /\ UNCHANGED <<candles, feed, mirror, phase, setups, restored, loading, lockVars>>

\* The strengths a request for the swings route can carry: parseInt(...) || 1
\* turns 0 into 1 and lets a negative number through.
RouteStrengths == {-1} \cup (1..MaxStrength)

InitClamp ==
  /\ InitEngines
  /\ feed = {ShapeA, ShapeB}
  /\ mirror = FALSE
  /\ strength = 1

\* Requests served between the closed candles of a feed of two shapes: the
\* level routes' full detections and the swings route with any strength.
NextClamp ==
  \/ FeedCandle("idle")
  \/ EnsureLevelsLoaded
  \/ \E k \in RouteStrengths : SwingAllWith(k)

SpecClamp == InitClamp /\ [][NextClamp]_vars

\* The longer history from a feed that holds a bar with a long lower wick, so
\* that candles can reach between the low and the body of a swing low.
InitWick ==
  /\ InitEngines
  /\ feed = {ShapeB, ShapeU, ShapeW}
  /\ mirror = FALSE
  /\ strength = 1

SpecWick == InitWick /\ [][NextHistory]_vars

\* A restart of the process between two candles: the new process holds no
\* level state for the key and restores it from the record, as
\* ensureLevelsLoaded does on the first request for the key.  From then on
\* LevelLatest makes the same call on the engine of the process that kept
\* running (lv) and on the restored one.
Restart ==
  /\ phase = "idle"
  /\ restored = NoEngine
  /\ restored' = _loadFromDisk(LvEmpty, disk)
  /\ UNCHANGED <<candles, feed, mirror, strength, phase, swings, swingIndexSet, bo, lv,
                 setups, disk, loading, lockVars>>

NextRestart ==
  \/ NextHistory
  \/ Restart

SpecRestart == InitWick /\ [][NextRestart]_vars

\* The incremental passes over a feed whose candles may also arrive without
\* the passes being run, so that a later pass finds several new candles.
NextResume ==
  \/ FeedCandle("idle")
  \/ NextIncremental

SpecResume == InitWick /\ [][NextResume]_vars

\* SwingEngine.detectLatest called again between two candles, on the candle
\* sequence as it is, with the strength of the call.
SwingLatestWith(k) ==
  /\ phase = "idle"
  /\ strength' = k
  /\ swings' = SwingDetectLatestStore(swings, swingIndexSet, candles, k)
  /\ swingIndexSet' = swingIndexSet \cup SwingKeys(swings')
  /\ UNCHANGED <<candles, feed, mirror, phase, bo, lv, setups, disk, restored, loading,
                 lockVars>>

\* Incremental and full swing detections in any order and with any strength
\* up to MaxStrength, any number of them between two candles.
NextSwingRepeat ==
  \/ FeedCandle("idle")
  \/ \E k \in 1..MaxStrength : SwingLatestWith(k)
  \/ \E k \in 1..MaxStrength : SwingAllWith(k)

SpecSwingRepeat == InitSwing /\ [][NextSwingRepeat]_vars

\* The three engines fed one closed candle at a time from a feed with a bar
\* that engulfs its neighbours, upright and upside down: its candle is a swing
\* high and a swing low at once.
InitEngulf ==
  /\ InitEngines
  /\ feed = {ShapeL, ShapeB, ShapeE}
  /\ mirror \in BOOLEAN
  /\ strength = 1

SpecEngulf == InitEngulf /\ [][NextIncremental]_vars

\* ------------------------------------------------------------------ ensureLevelsLoaded
\* The record a process that ran before left in dataDir for the key: it had
\* five bars, low and high in turn, and saved at the end of its detectAll.
PriorCandles ==
  [i \in 1..5 |-> MakeCandle(IF i % 2 = 1 THEN ShapeA ELSE ShapeB, i - 1)]

PriorRecord ==
  With(SwingDetectAllStore(<<>>, PriorCandles, 1), LAMBDA priorSwings :
    _saveToDisk(EqhEqlDetectAll(LvEmpty, priorSwings,
                                BreakoutDetectAll(priorSwings, PriorCandles), PriorCandles)))

\* ensureLevelsLoaded of the level routes finds no level for the key and calls
\* _loadFromDisk, which runs up to `await fs.readFile`.  It takes no lock.
LoadStart ==
  /\ loading = NoLoad
  /\ lv.store = <<>>
  /\ loading' = [pending |-> TRUE, data |-> disk]
  /\ UNCHANGED <<candles, feed, mirror, strength, phase, swings, swingIndexSet, bo, lv, setups,
                 disk, restored, lockVars>>

\* readFile settles and the rest of _loadFromDisk runs, on the engine as it is
\* by then.  What was read is the file as it was when the read began or, when
\* a detection has saved since, as it is now.
LoadFinish ==
  /\ loading # NoLoad
  /\ \E data \in {loading.data, disk} : lv' = _loadFromDisk(lv, data)
  /\ loading' = NoLoad
  /\ UNCHANGED <<candles, feed, mirror, strength, phase, swings, swingIndexSet, bo, setups,
                 disk, restored, lockVars>>

\* A process started with the record of the earlier one in dataDir: bars
\* arrive, full detections are requested and level routes are served.
InitLoad ==
  /\ InitLocks
  /\ candles = <<>>
  /\ phase = "idle"
  /\ swings = <<>>
  /\ swingIndexSet = {}
  /\ bo = BoEmpty
  /\ lv = LvEmpty
  /\ setups = NoSetups
  /\ disk = PriorRecord
  /\ restored = NoEngine
  /\ loading = NoLoad
  /\ feed = {ShapeA, ShapeB}
  /\ mirror = FALSE
  /\ strength = 1

NextLoad ==
  \/ NextRedetect
  \/ LoadStart
  \/ LoadFinish

SpecLoad == InitLoad /\ [][NextLoad]_vars

\* ------------------------------------------------------------------ signalEngine.js
\* The candle store of the feed for the key, under the messages of the broker.
\* In this part `candles` is what getCandles(symbol, granularity, true)
\* returns, every bar of the store with its array position, the forming bar
\* included, and phase tells whether candleStore[symbol][granularity] exists.
MaxEpochs == 5
Epochs == 10..(10 + MaxEpochs - 1)

\* signalEngine.js isSaneCandle: high is the highest and low the lowest price
feedIsSaneCandle(c) ==
  /\ c.high >= c.low
  /\ c.high >= c.open
  /\ c.high >= c.close
  /\ c.low <= c.open
  /\ c.low <= c.close

\* The bar a message of the broker describes: shape s with epoch t.
BrokerCandle(s, t) ==
  [index |-> NullNum, time |-> t,
   open |-> s.open, high |-> s.high, low |-> s.low, close |-> s.close]

\* The history batches of the broker: one or two bars in ascending time.
Batches ==
  {<<BrokerCandle(s, t)>> : s \in feed, t \in Epochs}
    \cup {batch \in {<<BrokerCandle(s1, t1), BrokerCandle(s2, t2)>> :
                        s1 \in feed, s2 \in feed, t1 \in Epochs, t2 \in Epochs} :
             batch[1].time < batch[2].time}

\* candles.map((c, i) => ({ ...c, index: i }))
getCandles(store) ==
  [p \in 1..Len(store) |-> [store[p] EXCEPT !.index = p - 1]]

\* storeCandles: the sane bars of the batch whose time is not in the store
\* are put behind the stored bars and the whole is sorted by time.
storeCandles(existing, batch) ==
  With(SelectSeq(batch, feedIsSaneCandle), LAMBDA incoming :
    With(SelectSeq(incoming,
                   LAMBDA c : \A p \in 1..Len(existing) : existing[p].time # c.time),
         LAMBDA fresh : SortByTime(existing \o fresh)))

\* updateLiveCandle once the store exists: a bar with the time of the last one
\* replaces it, any other is pushed.
updateLiveCandle(store, ohlc) ==
  IF ~feedIsSaneCandle(ohlc) THEN store
  ELSE IF store # <<>> /\ store[Len(store)].time = ohlc.time
    THEN [store EXCEPT ![Len(store)] = ohlc]
  ELSE Append(store, ohlc)

\* msg_type 'candles': a history batch for the key arrives
StoreCandles ==
  /\ \E batch \in Batches : candles' = getCandles(storeCandles(candles, batch))
  /\ phase' = "stored"
  /\ UNCHANGED <<feed, mirror, strength, swings, swingIndexSet, bo, lv, setups, disk, restored, loading,
                 lockVars>>

\* msg_type 'ohlc': an update of the forming bar, or the first update of the
\* bar after it; the stream of the broker does not go back in time.
UpdateLiveCandle ==
  /\ phase = "stored"
  /\ \E s \in feed : \E t \in Epochs :
       /\ candles # <<>> => t >= candles[Len(candles)].time
       /\ candles' = getCandles(updateLiveCandle(candles, BrokerCandle(s, t)))
  /\ UNCHANGED <<feed, mirror, strength, phase, swings, swingIndexSet, bo, lv, setups, disk,
                 restored, loading, lockVars>>

InitFeed ==
  /\ InitLocks
  /\ candles = <<>>
  /\ phase = "unsubscribed"
  /\ swings = <<>>
  /\ swingIndexSet = {}
  /\ bo = BoEmpty
  /\ lv = LvEmpty
  /\ setups = NoSetups
  /\ disk = NoRecord
  /\ restored = NoEngine
  /\ loading = NoLoad
  /\ feed = {ShapeA, ShapeB, ShapeK, ShapeX, ShapeY}
  /\ mirror = FALSE
  /\ strength = 1

NextFeed ==
  \/ StoreCandles
  \/ UpdateLiveCandle

SpecFeed == InitFeed /\ [][NextFeed]_vars

\* ------------------------------------------------------------------ locked operations
\* _withLock from its while test on, for caller c asking for cl, with `queue`
\* the continuations still to run: the caller finds a promise under its key
\* and awaits it, or stores a promise of its own and runs fn up to its first
\* await.  fn awaits nothing but _saveToDisk; when it does not save, what is
\* left of `return await fn()` is a continuation of its own.
TryLock(c, cl, queue) ==
  LET key == LockKey(cl.symbol, cl.granularity)
  IN /\ call' = [call EXCEPT ![c] = cl]
     /\ UNCHANGED seen
     /\ IF locks[key] # 0
          THEN /\ pc' = [pc EXCEPT ![c] = "waiting"]
               /\ waiters' = [waiters EXCEPT ![locks[key]] = Append(@, c)]
               /\ microtasks' = queue
               /\ writes' = [writes EXCEPT ![c] = "none"]
               /\ requests' = IF \E i \in 1..Len(requests) : requests[i] = c
                                THEN requests ELSE Append(requests, c)
               /\ UNCHANGED <<locks, version>>
          ELSE /\ locks' = [locks EXCEPT ![key] = c]
               /\ pc' = [pc EXCEPT ![c] = "inside"]
               /\ \E saves \in BOOLEAN :
                    /\ writes' = [writes EXCEPT ![c] = IF saves THEN "pending" ELSE "none"]
                    /\ microtasks' = IF saves THEN queue
                                     ELSE Append(queue, [caller |-> c, kind |-> "finish"])
               /\ requests' = SelectSeq(requests, LAMBDA q : q # c)
               /\ version' = [version EXCEPT ![key] = RunDetection(@)]
               /\ UNCHANGED waiters

\* A release that wakes the callers awaiting the promise last-come first.
Unlock_LastFirst(c, outcome, queue) ==
  LET n == Len(waiters[c])
      woken == {waiters[c][i] : i \in 1..n}
  IN /\ locks' = [locks EXCEPT ![LockKey(call[c].symbol, call[c].granularity)] = 0]
     /\ microtasks' = queue \o [i \in 1..n |->
                                  [caller |-> waiters[c][n + 1 - i], kind |-> "recheck"]]
     /\ waiters' = [waiters EXCEPT ![c] = <<>>]
     /\ pc' = [q \in Callers |->
                 IF q = c THEN outcome ELSE IF q \in woken THEN "woken" ELSE pc[q]]
     /\ UNCHANGED <<call, requests, version, seen>>

\* A _withLock without the finally: a call whose fn threw is rejected with the
\* key still in locks and its promise never resolved.
Unlock_NoFinally(c, outcome, queue) ==
  LET woken == IF outcome = "rejected" THEN {}
               ELSE {waiters[c][i] : i \in 1..Len(waiters[c])}
  IN /\ locks' = IF outcome = "rejected" THEN locks
                 ELSE [locks EXCEPT ![LockKey(call[c].symbol, call[c].granularity)] = 0]
     /\ microtasks' = IF outcome = "rejected" THEN queue
                      ELSE queue \o [i \in 1..Len(waiters[c]) |->
                                       [caller |-> waiters[c][i], kind |-> "recheck"]]
     /\ waiters' = IF outcome = "rejected" THEN waiters ELSE [waiters EXCEPT ![c] = <<>>]
     /\ pc' = [q \in Callers |->
                 IF q = c THEN outcome ELSE IF q \in woken THEN "woken" ELSE pc[q]]
     /\ UNCHANGED <<call, requests, version, seen>>

\* The finally block of _withLock, then the settling of the call: the key is
\* deleted from locks, the promise is resolved, which queues the continuation
\* of every caller awaiting it, and the caller gets its outcome.
Unlock(c, outcome, queue) ==
  LET woken == {waiters[c][i] : i \in 1..Len(waiters[c])}
  IN /\ locks' = [locks EXCEPT ![LockKey(call[c].symbol, call[c].granularity)] = 0]
     /\ microtasks' = queue \o [i \in 1..Len(waiters[c]) |->
                                  [caller |-> waiters[c][i], kind |-> "recheck"]]
     /\ waiters' = [waiters EXCEPT ![c] = <<>>]
     /\ pc' = [q \in Callers |->
                 IF q = c THEN outcome ELSE IF q \in woken THEN "woken" ELSE pc[q]]
     /\ UNCHANGED <<call, requests, version, seen>>

\* detectAll / detectLatest is called for some key (a route handler or the
\* feed: a task of its own, started when no continuation is pending).
Enter(c) ==
  /\ seen = NoQuery
  /\ pc[c] \in {"idle", "returned", "rejected"}
  /\ microtasks = <<>>
  /\ \E s \in Symbols, g \in Granularities, op \in Ops :
       TryLock(c, [symbol |-> s, granularity |-> g, op |-> op], <<>>)
  /\ UNCHANGED pipeVars

\* The event loop runs the next continuation: a woken caller tests the lock
\* again (the while loop), or a fn that saved nothing returns.
RunMicrotask ==
  /\ seen = NoQuery
  /\ microtasks # <<>>
  /\ LET task == Head(microtasks)
     IN IF task.kind = "recheck"
          THEN TryLock(task.caller, call[task.caller], Tail(microtasks))
          ELSE /\ Unlock(task.caller, "returned", Tail(microtasks))
               /\ UNCHANGED writes
  /\ UNCHANGED pipeVars

\* fs.mkdir and fs.writeFile of _saveToDisk complete: fn returns its result.
SaveDone(c) ==
  /\ seen = NoQuery
  /\ pc[c] = "inside"
  /\ writes[c] = "pending"
  /\ microtasks = <<>>
  /\ writes' = [writes EXCEPT ![c] = "done"]
  /\ Unlock(c, "returned", <<>>)
  /\ UNCHANGED pipeVars

\* fs.mkdir or fs.writeFile of _saveToDisk throws: nothing catches it between
\* the await in fn and the caller, so the call is rejected.
SaveFail(c) ==
  /\ seen = NoQuery
  /\ pc[c] = "inside"
  /\ writes[c] = "pending"
  /\ microtasks = <<>>
  /\ writes' = [writes EXCEPT ![c] = "failed"]
  /\ Unlock(c, "rejected", <<>>)
  /\ UNCHANGED pipeVars

\* A client query: get(symbol, granularity) copies the list of the key and
\* getSummary(symbol, granularity) reads its counts.  It takes no lock and awaits
\* nothing, so it starts at any point between two continuations and no other
\* code runs until it has answered.
Query(s, g) ==
  /\ seen = NoQuery
  /\ seen' = [key |-> LockKey(s, g),
              store |-> version[LockKey(s, g)].store,
              counts |-> version[LockKey(s, g)].counts]
  /\ UNCHANGED <<pipeVars, locks, pc, call, waiters, microtasks, writes, requests, version>>

\* The query's handler sends what it read and ends.
Respond ==
  /\ seen # NoQuery
  /\ seen' = NoQuery
  /\ UNCHANGED <<pipeVars, locks, pc, call, waiters, microtasks, writes, requests, version>>

InitLock ==
  /\ InitEngines
  /\ feed = {}
  /\ mirror = FALSE
  /\ strength = 1

NextLock ==
  \/ \E c \in Callers : Enter(c)
  \/ RunMicrotask
  \/ \E c \in Callers : SaveDone(c)
  \/ \E c \in Callers : SaveFail(c)
  \/ \E s \in Symbols, g \in Granularities : Query(s, g)
  \/ Respond

SpecLock == InitLock /\ [][NextLock]_vars

\* The calls alone, under the scheduling of the event loop: a queued
\* continuation is run (the microtask queue is drained before anything else),
\* and the file system settles every write it was given, the completion being
\* a task of its own that the calls arriving meanwhile cannot hold back for ever.
NextLockCalls ==
  \/ \E c \in Callers : Enter(c)
  \/ RunMicrotask
  \/ \E c \in Callers : SaveDone(c)
  \/ \E c \in Callers : SaveFail(c)

SpecLockFair ==
  /\ InitLock
  /\ [][NextLockCalls]_vars
  /\ WF_vars(RunMicrotask)
  /\ \A c \in Callers : SF_vars(SaveDone(c) \/ SaveFail(c))

\* ------------------------------------------------------------------ full batch
\* What one full-batch run over the whole history leaves in stores that were
\* empty: swingEngine.detectAll, then breakoutEngine.detectAll, then
\* eqhEqlEngine.detectAll.
BatchSwings == SwingDetectAllStore(<<>>, candles, strength)
BatchBreakouts == BreakoutDetectAll(BatchSwings, candles)
BatchLevels == EqhEqlDetectAll(LvEmpty, BatchSwings, BatchBreakouts, candles)

\* ------------------------------------------------------------------ claims

\* C1: after N successive detectLatest calls, one per appended candle from an
\* empty store, the swing list equals the list one detectAll over the whole
\* sequence produces (same swings, same order, same directions).
C1_SwingEquivalence == phase = "idle" => swings = BatchSwings

\* C1 witness: the incremental store holds a later swing of a type next to an
\* earlier one, so directions other than FIRST have been assigned one by one.
C1_Witness ==
  /\ phase = "idle"
  /\ \E p \in 1..Len(swings) : swings[p].direction \in {"HH", "LH", "HL", "LL"}
  /\ Len(swings) >= 3

\* C2: after detectLatest on every appended candle (swings maintained
\* incrementally), the breakout list equals the list of one detectAll over the
\* whole sequence: same records, same fields, same order.
C2_BreakoutEquivalence == phase = "idle" => bo.store = BatchBreakouts.store

\* C3: after detectLatest on every appended candle (swings and breakouts
\* maintained incrementally), the level list equals the list of one detectAll
\* over the whole sequence in every field of every level, the bias snapshot
\* included.
C3_LevelEquivalence == phase = "idle" => lv.store = BatchLevels.store

\* C4: from one incremental pass to the next, the strength rank of the
\* breakout of a swing does not decrease, and a SUSTAINED breakout is left
\* exactly as it is.
C4_StrengthMonotone ==
  [][\A p \in 1..Len(bo.store) : \A q \in 1..Len(bo'.store) :
       BoKey(bo.store[p]) = BoKey(bo'.store[q]) =>
         /\ bo'.store[q].strength >= bo.store[p].strength
         /\ BosStrength(bo'.store[q].bosType) >= BosStrength(bo.store[p].bosType)
         /\ bo.store[p].bosType = "BOS_SUSTAINED" => bo'.store[q] = bo.store[p]]_vars

\* C4 witness: a breakout has reached SUSTAINED with candles still arriving
\* after it.  A first record is made on the pass of its breaking candle, where
\* it is WICK or CLOSE at most, so this record has been through the upgrade,
\* and later passes have run over it.
C4_Witness ==
  /\ phase = "idle"
  /\ \E p \in 1..Len(bo.store) :
       /\ bo.store[p].bosType = "BOS_SUSTAINED"
       /\ bo.store[p].confirmingCandles[2].index < Len(candles) - 1

\* Position of a status in the order ACTIVE, SWEPT, BROKEN.
LvStatusRank(status) ==
  IF status = "active" THEN 0 ELSE IF status = "swept" THEN 1 ELSE 2

\* C5: from one incremental pass to the next, the status of a level never
\* moves backward in ACTIVE, SWEPT, BROKEN: a SWEPT level does not return to
\* ACTIVE and a BROKEN level stays BROKEN.
C5_StatusMonotone ==
  [][\A p \in 1..Len(lv.store) : \A q \in 1..Len(lv'.store) :
       lv.store[p].key = lv'.store[q].key =>
         /\ lv.store[p].status \in {"active", "swept", "broken"}
         /\ lv'.store[q].status \in {"active", "swept", "broken"}
         /\ LvStatusRank(lv'.store[q].status) >= LvStatusRank(lv.store[p].status)]_vars

\* C5 witness: a level that was swept on a pass after the one that created
\* it and was broken on a later pass still.
C5_Witness ==
  /\ phase = "idle"
  /\ \E p \in 1..Len(lv.store) :
       /\ lv.store[p].status = "broken"
       /\ lv.store[p].sweptIndex > lv.store[p].secondSwingIndex + 1
       /\ lv.store[p].brokenIndex > lv.store[p].sweptIndex

\* C6: every level of the store, EQH or EQL, has zoneTop >= zoneBottom.
C6_ZoneOrdered ==
  \A p \in 1..Len(lv.store) : lv.store[p].zoneTop >= lv.store[p].zoneBottom

\* C7: no two levels of the store have the same (first swing index, second
\* swing index, type), after any sequence of full detections, incremental
\* detections and evictions.
C7_NoDuplicateLevels ==
  \A p, q \in 1..Len(lv.store) :
    p # q =>
      <<lv.store[p].firstSwingIndex, lv.store[p].secondSwingIndex, lv.store[p].type>>
        # <<lv.store[q].firstSwingIndex, lv.store[q].secondSwingIndex, lv.store[q].type>>

\* C7 witness: the store is full, and more levels have been counted in than
\* it holds, so an eviction has taken place.
C7_Witness ==
  /\ phase = "idle"
  /\ Len(lv.store) = MAX_LEVELS_PER_SYMBOL
  /\ lv.counts["eqh"] + lv.counts["eql"] > Len(lv.store)
  /\ lv.lastSwingCount.highs + lv.lastSwingCount.lows >= 4

\* Age of a level in milliseconds when the history holds n closed bars.
LevelAgeMs(level, n) == DateNow(n) - 1000 * level.time

\* C8: a step that puts a new level into the store, in full or incremental
\* detection, leaves at most MAX_LEVELS_PER_SYMBOL levels in it, none of them
\* older than MAX_LEVEL_AGE_MS.
C8_EvictionBound ==
  [][SeqKeys(lv'.store) \ SeqKeys(lv.store) # {} =>
       /\ Len(lv'.store) <= MAX_LEVELS_PER_SYMBOL
       /\ \A p \in 1..Len(lv'.store) :
            LevelAgeMs(lv'.store[p], Len(candles')) <= MAX_LEVEL_AGE_MS]_vars

\* C9: at most one locked operation is inside its critical section on a
\* (symbol, granularity) key at any time, and a caller only ever waits for an
\* operation on its own key.
C9_PerKeyExclusion ==
  /\ \A c1, c2 \in Callers :
       c1 # c2 /\ pc[c1] = "inside" /\ pc[c2] = "inside" => StateKey(c1) # StateKey(c2)
  /\ \A h \in Callers : \A i \in 1..Len(waiters[h]) :
       /\ pc[h] = "inside"
       /\ StateKey(waiters[h][i]) = StateKey(h)
  /\ \A c \in Callers :
       pc[c] = "waiting" => \E h \in Callers : \E i \in 1..Len(waiters[h]) : waiters[h][i] = c

\* C9 witness: two operations are inside on two different keys at once, while
\* a third caller waits for one of them.
C9_Witness ==
  \E c1, c2, c3 \in Callers :
    /\ pc[c1] = "inside" /\ pc[c2] = "inside" /\ pc[c3] = "waiting"
    /\ StateKey(c1) # StateKey(c2)
    /\ StateKey(c3) = StateKey(c1)

\* C10: a persistence write that is still pending or that has thrown never
\* keeps the detection call from returning its result: whenever the write of
\* a call is pending or failed, the call has returned.
C10_WriteOffCallPath ==
  \A c \in Callers : writes[c] \in {"pending", "failed"} => pc[c] = "returned"

\* Position of caller c in the order of the calls still to enter, -1 when it
\* is not among them.
RequestPos(c) == LastOf({i \in 1..Len(requests) : requests[i] = c})

\* C11: the lock is first-come first-served per key: when a caller enters the
\* critical section, no caller that asked for the same key before it is still
\* waiting to enter.
C11_FifoFair ==
  [][\A c \in Callers :
       (pc[c] # "inside" /\ pc'[c] = "inside") =>
         \A q \in Callers \ {c} :
           (RequestPos(q) > 0 /\ LockKey(call[q].symbol, call[q].granularity)
                                  = LockKey(call'[c].symbol, call'[c].granularity))
             => (RequestPos(c) > 0 /\ RequestPos(c) < RequestPos(q))]_vars

\* C11 happens: two callers waited for the same key, the holder released it,
\* the one that asked first is inside and the other is about to test the lock
\* again.
C11_Witness ==
  \E c, q \in Callers :
    /\ c # q
    /\ pc[c] = "inside"
    /\ pc[q] = "woken"
    /\ StateKey(c) = StateKey(q)
    /\ microtasks # <<>>
    /\ Head(microtasks) = [caller |-> q, kind |-> "recheck"]

SwingRecorded(store, i, type) ==
  \E p \in 1..Len(store) : store[p].index = i /\ store[p].type = type

\* The candle at position i is strictly higher (lower) than every other candle
\* of positions i-k..i+k.
StrictlyHighest(cs, i, k) ==
  \A j \in (i - k)..(i + k) : j # i => cs[i + 1].high > cs[j + 1].high

StrictlyLowest(cs, i, k) ==
  \A j \in (i - k)..(i + k) : j # i => cs[i + 1].low < cs[j + 1].low

\* C13: with strength k, the candle at position i (k <= i < n-k) is recorded
\* as a swing high exactly when its high is strictly above the high of every
\* other candle of positions i-k..i+k, and as a swing low exactly when its low
\* is strictly below theirs, in the list detectAll builds and in the list the
\* incremental calls have built; a tie is not a swing.
C13_SwingCriterion ==
  phase = "idle" =>
    With(BatchSwings, LAMBDA batch :
      \A i \in strength..(Len(candles) - strength - 1) :
        /\ SwingRecorded(batch, i, "high") <=> StrictlyHighest(candles, i, strength)
        /\ SwingRecorded(batch, i, "low") <=> StrictlyLowest(candles, i, strength)
        /\ SwingRecorded(swings, i, "high") <=> StrictlyHighest(candles, i, strength)
        /\ SwingRecorded(swings, i, "low") <=> StrictlyLowest(candles, i, strength))

\* C13 happens: with strength 2, one candle is a recorded swing low, and
\* another has the highest high of its window but ties a neighbour and is not
\* recorded.
C13_Witness ==
  /\ phase = "idle"
  /\ strength = 2
  /\ \E i \in strength..(Len(candles) - strength - 1) :
       SwingRecorded(BatchSwings, i, "low") /\ SwingRecorded(swings, i, "low")
  /\ \E i \in strength..(Len(candles) - strength - 1) :
       /\ \A j \in (i - strength)..(i + strength) :
            candles[i + 1].high >= candles[j + 1].high
       /\ \E j \in (i - strength)..(i + strength) :
            j # i /\ candles[i + 1].high = candles[j + 1].high
       /\ ~SwingRecorded(BatchSwings, i, "high")
       /\ ~SwingRecorded(swings, i, "high")

\* The swing of the same type that precedes position p in the list, 0 when
\* there is none.
PrecedingOfType(store, p) ==
  With(LastOf({q \in 1..(p - 1) : store[q].type = store[p].type}),
       LAMBDA q : IF q = -1 THEN 0 ELSE q)

\* Every swing of the list carries the direction its price and the price of
\* the preceding swing of its type give it.
DirectionsAssigned(store) ==
  \A p \in 1..Len(store) :
    With(PrecedingOfType(store, p), LAMBDA prev :
      store[p].direction =
        IF prev = 0 THEN "FIRST"
        ELSE IF store[p].type = "high"
          THEN (IF store[p].price > store[prev].price THEN "HH" ELSE "LH")
          ELSE (IF store[p].price > store[prev].price THEN "HL" ELSE "LL"))

\* C14: after every incremental pass the first swing of each type is FIRST and
\* every later swing is HH/LH (high) or HL/LL (low) by comparison of its price
\* with the price of the swing of its type just before it, and a pass leaves
\* every swing already in the list, its direction included, as it was.
C14_Directions ==
  [][/\ DirectionsAssigned(swings')
     /\ \A p \in 1..Len(swings) : p <= Len(swings') /\ swings'[p] = swings[p]]_vars

\* C14 happens: a later swing high with the price of the one before it has
\* been given LH, another swing came after it, and a low has HL or LL.
C14_Witness ==
  /\ phase = "idle"
  /\ \E p \in 1..Len(swings) :
       /\ p < Len(swings)
       /\ swings[p].direction = "LH"
       /\ PrecedingOfType(swings, p) # 0
       /\ swings[PrecedingOfType(swings, p)].price = swings[p].price
  /\ \E p \in 1..Len(swings) : swings[p].direction \in {"HL", "LL"}

\* The candle closes (its wick reaches) beyond the price of the swing.
ClosesBeyond(swing, c) ==
  IF swing.type = "high" THEN c.close > swing.price ELSE c.close < swing.price

WickBeyond(swing, c) ==
  IF swing.type = "high" THEN c.high > swing.price ELSE c.low < swing.price

\* The classification of the break of a swing by the candles after it: the
\* kind, the position of the confirming (or of the first wick) candle and the
\* position of the candle of the second confirmation, -1 when there is none.
ExpectedBreak(swing, cs) ==
  LET after == {p \in 1..Len(cs) : cs[p].index > swing.index}
  IN With(FirstOf({p \in after : ClosesBeyond(swing, cs[p])}), LAMBDA confirm :
       IF confirm # -1
         THEN With(FirstOf({q \in after :
                              /\ q > confirm
                              /\ q <= confirm + MAX_BOS_SCAN_CANDLES
                              /\ IF swing.type = "high"
                                    THEN cs[q].close > cs[confirm].close
                                    ELSE cs[q].close < cs[confirm].close}),
                   LAMBDA sustain :
                     [kind |-> IF sustain # -1 THEN "BOS_SUSTAINED" ELSE "BOS_CLOSE",
                      breaking |-> confirm, second |-> sustain])
         ELSE With(FirstOf({p \in after : WickBeyond(swing, cs[p])}), LAMBDA wick :
                [kind |-> IF wick # -1 THEN "BOS_WICK" ELSE "NONE",
                 breaking |-> wick, second |-> -1]))

\* A breakout record (None for no record) is what the classification says.
MatchesExpected(record, e, cs) ==
  IF e.kind = "NONE" THEN record = None
  ELSE /\ record # None
       /\ record.bosType = e.kind
       /\ record.breakingCandleIndex = cs[e.breaking].index
       /\ record.breakingCandleClose = cs[e.breaking].close
       /\ IF e.kind = "BOS_SUSTAINED"
            THEN /\ Len(record.confirmingCandles) = 2
                 /\ record.confirmingCandles[2].index = cs[e.second].index
            ELSE TRUE

\* C15: for every swing, _checkBreak over the candles so far, and the record
\* the incremental passes have left in the store, give: SUSTAINED when a
\* candle among the MAX_BOS_SCAN_CANDLES after the first close beyond the
\* swing price closes further beyond that candle's close, otherwise CLOSE
\* with brokenBy the confirming close, WICK when only a wick crosses the
\* price, nothing when nothing crosses it.
C15_Classification ==
  phase = "idle" =>
    \A p \in 1..Len(swings) :
      With(ExpectedBreak(swings[p], candles), LAMBDA e :
        /\ MatchesExpected(_checkBreak(swings[p], candles), e, candles)
        /\ With(BoFind(bo.store, swings[p]), LAMBDA q :
             MatchesExpected(IF q = 0 THEN None ELSE bo.store[q], e, candles)))

\* C15 happens: a swing high was closed above, the next candle closed back
\* below the swing price, and the candle after that closed above the
\* confirming close: the record is SUSTAINED with the confirming candle as
\* its breaking candle.
C15_Witness ==
  /\ phase = "idle"
  /\ \E q \in 1..Len(bo.store) :
       LET b == bo.store[q]
           c == b.breakingCandleIndex + 1
       IN /\ b.swingType = "high"
          /\ b.bosType = "BOS_SUSTAINED"
          /\ c + 2 <= Len(candles)
          /\ candles[c + 1].close < b.swingPrice
          /\ candles[c + 2].close > b.breakingCandleClose
          /\ b.confirmingCandles[2].index = candles[c + 2].index

\* The level type that pairs of swings of one type form
LevelTypeOf(swing) == IF swing.type = "high" THEN "EQH" ELSE "EQL"

\* The ordered pairs of same-type swings of a swing list (positions), the
\* first earlier than the second
OrderedPairs(list) ==
  {pair \in (1..Len(list)) \X (1..Len(list)) :
     /\ list[pair[1]].type = list[pair[2]].type
     /\ list[pair[1]].index < list[pair[2]].index}

\* second.price lies between first.price and first.keyPrice, bounds included
InBand(firstSwing, secondSwing) ==
  \/ firstSwing.keyPrice <= secondSwing.price /\ secondSwing.price <= firstSwing.price
  \/ firstSwing.price <= secondSwing.price /\ secondSwing.price <= firstSwing.keyPrice

\* The pairs of a swing list are considered by a level store: a pair outside
\* the band has no level, and a pair inside the band that the validation
\* accepts has its level, unless the store is full of levels at least as
\* recent (evictable says whether the store is capped).
PairsConsidered(list, store, cs, evictable) ==
  With(SeqKeys(store), LAMBDA keys :
    \A pair \in OrderedPairs(list) :
      With(list[pair[1]], LAMBDA firstSwing : With(list[pair[2]], LAMBDA secondSwing :
        With(LevelTypeOf(firstSwing), LAMBDA type :
          With(LevelKey(firstSwing, secondSwing, type), LAMBDA key :
            IF ~InBand(firstSwing, secondSwing) THEN key \notin keys
            ELSE \/ key \in keys
                 \/ _validateAndBuild(type, firstSwing, secondSwing, cs, list) = None
                 \/ /\ evictable
                    /\ Len(store) = MAX_LEVELS_PER_SYMBOL
                    /\ secondSwing.time <= store[1].time)))))

\* C16: an ordered pair of same-type swings is a level candidate exactly when
\* second.price lies between first.price and first.keyPrice, both bounds
\* included, and every such pair is considered: in the result of detectAll
\* over the candles so far and in the store the incremental passes have
\* left, no pair outside the band has a level and every pair inside the band
\* that passes the validation has one.
C16_Candidates ==
  phase = "idle" =>
    /\ PairsConsidered(BatchSwings, BatchLevels.store, candles, FALSE)
    /\ PairsConsidered(swings, lv.store, candles, TRUE)

\* C16 happens: the incremental store holds a level whose second swing sits
\* exactly on a bound of the band (the price of the first swing), while
\* another pair of the same type lies outside the band and has no level.
C16_Witness ==
  /\ phase = "idle"
  /\ \E pair \in OrderedPairs(swings) :
       /\ swings[pair[2]].price = swings[pair[1]].price
       /\ swings[pair[1]].price # swings[pair[1]].keyPrice
       /\ LevelKey(swings[pair[1]], swings[pair[2]], LevelTypeOf(swings[pair[1]]))
            \in SeqKeys(lv.store)
  /\ \E pair \in OrderedPairs(swings) :
       ~InBand(swings[pair[1]], swings[pair[2]])

\* The edges of the zone [zoneBottom, zoneTop] that a first swing spans
\* between its price and its keyPrice
ZoneUpper(firstSwing) ==
  IF firstSwing.price >= firstSwing.keyPrice THEN firstSwing.price ELSE firstSwing.keyPrice
ZoneLower(firstSwing) ==
  IF firstSwing.price >= firstSwing.keyPrice THEN firstSwing.keyPrice ELSE firstSwing.price

\* Some candle strictly between the two swings reaches into the zone: for
\* highs its high reaches the lower edge, for lows its low reaches the upper
\* edge.
ReachesZone(firstSwing, secondSwing, cs) ==
  \E c \in 1..Len(cs) :
    /\ cs[c].index > firstSwing.index
    /\ cs[c].index < secondSwing.index
    /\ IF firstSwing.type = "high" THEN cs[c].high >= ZoneLower(firstSwing)
                                   ELSE cs[c].low <= ZoneUpper(firstSwing)

\* The swing list holds a swing of the opposite type strictly between the two
OppositeBetween(firstSwing, secondSwing, list) ==
  \E p \in 1..Len(list) :
    /\ list[p].type # firstSwing.type
    /\ list[p].index > firstSwing.index
    /\ list[p].index < secondSwing.index

\* Among the candidate pairs of a swing list, those that have a level in the
\* store are those that no candle between reaches into and that have an
\* opposite swing between (a full store may have dropped levels at least as
\* old as its oldest when evictable).
PairsValidated(list, store, cs, evictable) ==
  With(SeqKeys(store), LAMBDA keys :
    \A pair \in OrderedPairs(list) :
      With(list[pair[1]], LAMBDA firstSwing : With(list[pair[2]], LAMBDA secondSwing :
        With(LevelKey(firstSwing, secondSwing, LevelTypeOf(firstSwing)), LAMBDA key :
          InBand(firstSwing, secondSwing) =>
            IF /\ ~ReachesZone(firstSwing, secondSwing, cs)
               /\ OppositeBetween(firstSwing, secondSwing, list)
              THEN \/ key \in keys
                   \/ /\ evictable
                      /\ Len(store) = MAX_LEVELS_PER_SYMBOL
                      /\ secondSwing.time <= store[1].time
              ELSE key \notin keys))))

\* C17: a candidate pair becomes a level exactly when no candle strictly
\* between the two swings reaches into the zone (EQH: no intervening high
\* reaches zoneBottom; EQL: no intervening low reaches zoneTop, the upper
\* edge of the zone) and the swing list holds a swing of the opposite type
\* strictly between the two; otherwise no level is created.
C17_Validation ==
  phase = "idle" =>
    /\ PairsValidated(BatchSwings, BatchLevels.store, candles, FALSE)
    /\ PairsValidated(swings, lv.store, candles, TRUE)

\* The edges of the zone [zoneBottom, zoneTop] of a level
LevelUpper(level) == IF level.zoneTop >= level.zoneBottom THEN level.zoneTop ELSE level.zoneBottom
LevelLower(level) == IF level.zoneTop >= level.zoneBottom THEN level.zoneBottom ELSE level.zoneTop

\* The candle closes beyond the zone: above it for EQH, below it for EQL
ClosesBeyondZone(level, candle) ==
  IF level.type = "EQH" THEN candle.close > LevelUpper(level)
                        ELSE candle.close < LevelLower(level)

\* The wick of the candle breaches the zone: above it for EQH, below for EQL
WickBeyondZone(level, candle) ==
  IF level.type = "EQH" THEN candle.high > LevelUpper(level)
                        ELSE candle.low < LevelLower(level)

\* The candles after the second swing of the level, one by one: the status
\* they give and the candle (array position) that broke and that swept it.
ExpectedStatus(level, cs) ==
  With(FirstOf({c \in 1..Len(cs) : /\ cs[c].index > level.secondSwingIndex
                                   /\ ClosesBeyondZone(level, cs[c])}),
       LAMBDA breaking :
    With(FirstOf({c \in 1..Len(cs) : /\ cs[c].index > level.secondSwingIndex
                                     /\ breaking # -1 => c < breaking
                                     /\ WickBeyondZone(level, cs[c])}),
         LAMBDA sweeping :
      [status |-> IF breaking # -1 THEN "broken"
                  ELSE IF sweeping # -1 THEN "swept" ELSE "active",
       breaking |-> breaking,
       sweeping |-> sweeping]))

\* The status fields of the level are the expected ones
StatusMatches(level, e, cs) ==
  /\ level.status = e.status
  /\ IF e.breaking = -1 THEN level.brokenIndex = NullNum
     ELSE /\ level.brokenIndex = cs[e.breaking].index
          /\ level.brokenBy = cs[e.breaking].close
  /\ IF e.sweeping = -1 THEN level.sweptIndex = NullNum
     ELSE level.sweptIndex = cs[e.sweeping].index

\* C18: every level, in the result of detectAll and in the store the
\* incremental passes have left, has the status its candles give when they
\* are handled one by one after the second swing: BROKEN, with brokenBy that
\* close, from the first candle that closes beyond the zone (from ACTIVE or
\* SWEPT); before that SWEPT from the first candle whose wick breaches the
\* zone; otherwise ACTIVE.
C18_StatusScan ==
  phase = "idle" =>
    /\ \A p \in 1..Len(lv.store) :
         StatusMatches(lv.store[p], ExpectedStatus(lv.store[p], candles), candles)
    /\ With(BatchLevels.store, LAMBDA batch :
         \A p \in 1..Len(batch) :
           StatusMatches(batch[p], ExpectedStatus(batch[p], candles), candles))

\* A candle closes beyond brokenBy: above it for EQH, below it for EQL
ClosesBeyondBreak(level, candle) ==
  IF level.type = "EQH" THEN candle.close > level.brokenBy
                        ELSE candle.close < level.brokenBy

\* Some candle among the MAX_BOS_SCAN_CANDLES after the breaking candle of the
\* level has closed beyond brokenBy
SustainedInWindow(level, cs) ==
  \E c \in 1..Len(cs) :
    /\ cs[c].index > level.brokenIndex
    /\ cs[c].index <= level.brokenIndex + MAX_BOS_SCAN_CANDLES
    /\ ClosesBeyondBreak(level, cs[c])

\* Every broken level of the store is SUSTAINED when a candle of its window
\* has closed beyond brokenBy and CLOSE when none has
BosKindsSettled(store, cs) ==
  \A p \in 1..Len(store) :
    store[p].status = "broken" =>
      store[p].brokenBosType =
        IF SustainedInWindow(store[p], cs) THEN "BOS_SUSTAINED" ELSE "BOS_CLOSE"

\* C19: after every incremental pass each BROKEN level is SUSTAINED exactly
\* when a candle inside the bounded window after its breaking candle has
\* closed beyond brokenBy (so it becomes SUSTAINED on the first pass that sees
\* such a candle, and stays CLOSE whatever closes after the window), and a
\* level that is SUSTAINED is never CLOSE again.
C19_Upgrade ==
  [][/\ phase' = "idle" => BosKindsSettled(lv'.store, candles')
     /\ \A p \in 1..Len(lv.store) : \A q \in 1..Len(lv'.store) :
          (lv.store[p].key = lv'.store[q].key
             /\ lv.store[p].brokenBosType = "BOS_SUSTAINED")
          => lv'.store[q].brokenBosType = "BOS_SUSTAINED"]_vars

\* C19 happens: a broken level was re-evaluated by the passes after its
\* breaking candle and has stayed CLOSE although a candle after its window
\* closed beyond brokenBy.
C19_Witness ==
  /\ phase = "idle"
  /\ \E p \in 1..Len(lv.store) :
       /\ lv.store[p].status = "broken"
       /\ lv.store[p].brokenBosType = "BOS_CLOSE"
       /\ \E c \in 1..Len(candles) :
            /\ candles[c].index > lv.store[p].brokenIndex + MAX_BOS_SCAN_CANDLES
            /\ ClosesBeyondBreak(lv.store[p], candles[c])

\* C20: a setup query returns setups only for levels of the store whose
\* status is BROKEN, leaves the level engine (store, counters, cached latest
\* levels) and the candles as they were, and what it returns is what a
\* second call on the unchanged levels and candles returns.
C20_SetupQuery ==
  [][(setups = NoSetups /\ setups' # NoSetups) =>
       /\ lv' = lv
       /\ candles' = candles
       /\ \A p \in 1..Len(setups'.list) :
            /\ setups'.list[p].level.status = "broken"
            /\ \E q \in 1..Len(lv.store) : lv.store[q] = setups'.list[p].level
       /\ setups'.list = getSetups(lv'.store, candles')]_vars

\* C20 happens: a query is answered with a setup that has its pullback and
\* its impulse candle while the store also holds a level that is not broken.
C20_Witness ==
  /\ setups.returned
  /\ \E p \in 1..Len(setups.list) :
       /\ setups.list[p].setupVshapeIndex # NullNum
       /\ setups.list[p].impulseExtremeIndex # NullNum
  /\ \E q \in 1..Len(lv.store) : lv.store[q].status # "broken"

\* The array positions of the candles among the MAX_SETUP_SCAN_CANDLES that
\* immediately follow the breaking candle of the level
PullbackRange(level, cs) ==
  {c \in 1..Len(cs) : /\ cs[c].index > level.brokenIndex
                      /\ cs[c].index <= level.brokenIndex + MAX_SETUP_SCAN_CANDLES}

\* The array positions of the candles strictly between the intervening
\* V-shape candle of the level and the candle of index pullbackIndex
ImpulseRange(level, cs, pullbackIndex) ==
  {c \in 1..Len(cs) : cs[c].index > level.vShapeIndex /\ cs[c].index < pullbackIndex}

\* The setup carries the pullback and the impulse extreme of its level
SetupMatches(setup, cs) ==
  With(setup.level, LAMBDA level :
    With(PullbackRange(level, cs), LAMBDA range :
      IF range = {}
        THEN setup.setupVshapeIndex = NullNum /\ setup.setupVshapeDepth = NullNum
             /\ setup.impulseExtremeIndex = NullNum /\ setup.impulseExtremeDepth = NullNum
        ELSE /\ \E c \in range :
                  /\ setup.setupVshapeIndex = cs[c].index
                  /\ setup.setupVshapeDepth =
                       IF level.type = "EQH" THEN cs[c].low ELSE cs[c].high
                  /\ \A d \in range :
                       IF level.type = "EQH" THEN cs[c].low <= cs[d].low
                                             ELSE cs[c].high >= cs[d].high
             /\ With(ImpulseRange(level, cs, setup.setupVshapeIndex), LAMBDA between :
                  IF between = {}
                    THEN setup.impulseExtremeIndex = NullNum
                         /\ setup.impulseExtremeDepth = NullNum
                    ELSE \E c \in between :
                           /\ setup.impulseExtremeIndex = cs[c].index
                           /\ setup.impulseExtremeDepth =
                                IF level.type = "EQH" THEN cs[c].high ELSE cs[c].low
                           /\ \A d \in between :
                                IF level.type = "EQH" THEN cs[c].high >= cs[d].high
                                                      ELSE cs[c].low <= cs[d].low)))

\* C21: every setup a query returns has as pullback the lowest low (EQH) or
\* highest high (EQL) among the at most MAX_SETUP_SCAN_CANDLES candles that
\* immediately follow the breaking candle, and as impulse extreme the highest
\* high (EQH) or lowest low (EQL) among the candles strictly between the
\* intervening V-shape candle and the pullback candle; each is null when its
\* range holds no candle.
C21_SetupExtremes ==
  setups.returned =>
    \A p \in 1..Len(setups.list) : SetupMatches(setups.list[p], candles)

\* C21 happens: a returned setup has a pullback and an impulse extreme, and a
\* candle after the scanned window is more adverse than the pullback.
C21_Witness ==
  /\ setups.returned
  /\ \E p \in 1..Len(setups.list) :
       /\ setups.list[p].setupVshapeIndex # NullNum
       /\ setups.list[p].impulseExtremeIndex # NullNum
       /\ \E c \in 1..Len(candles) :
            /\ candles[c].index > setups.list[p].level.brokenIndex + MAX_SETUP_SCAN_CANDLES
            /\ IF setups.list[p].level.type = "EQH"
                 THEN candles[c].low < setups.list[p].setupVshapeDepth
                 ELSE candles[c].high > setups.list[p].setupVshapeDepth

\* The number of levels of a store that satisfy Test
CountLevels(store, Test(_)) == Cardinality({p \in 1..Len(store) : Test(store[p])})

\* C22: after any sequence of full detections, incremental detections, status
\* changes and evictions, each count of the level summary (EQH, EQL, active,
\* swept, broken) is the number of levels of that category in the store, and
\* EQH + EQL is the reported total.
C22_SummaryCounts ==
  With(getSummary(lv), LAMBDA summary :
    /\ summary.eqh = CountLevels(lv.store, LAMBDA l : l.type = "EQH")
    /\ summary.eql = CountLevels(lv.store, LAMBDA l : l.type = "EQL")
    /\ summary.active = CountLevels(lv.store, LAMBDA l : l.status = "active")
    /\ summary.swept = CountLevels(lv.store, LAMBDA l : l.status = "swept")
    /\ summary.broken = CountLevels(lv.store, LAMBDA l : l.status = "broken")
    /\ summary.eqh + summary.eql = summary.total)

\* C23: a full detection leaves in the store of its engine exactly what it
\* derives from the candles it is given, as if the engine had held nothing
\* for the key: the swings of the candles for the strength of the call, the
\* breakouts of the swings over the candles, the levels of the swings over
\* the candles.
C23_FullRebuild ==
  [][/\ (\E k \in 1..MaxStrength : SwingAllWith(k))
          => swings' = SwingDetectAllStore(<<>>, candles, strength')
     /\ BreakoutAll => bo' = BreakoutDetectAll(swings, candles)
     /\ LevelAll => lv' = EqhEqlDetectAll(LvEmpty, swings, bo, candles)]_vars

\* The key of the last level of a store that satisfies Test, NoKey when none
LastLevelKey(store, Test(_)) ==
  With(LastOf({p \in 1..Len(store) : Test(store[p])}),
       LAMBDA p : IF p = -1 THEN NoKey ELSE store[p].key)

\* C24: after any sequence of detections, status changes and evictions, the
\* latest lookup answers the last level of the time-ordered store and the
\* latest-active lookup the last level of the store whose status is ACTIVE
\* (null when there is none); both are levels of the store.
C24_LatestLookups ==
  /\ getLatest(lv) = LastLevelKey(lv.store, LAMBDA l : TRUE)
  /\ getLatestActive(lv) = LastLevelKey(lv.store, LAMBDA l : l.status = "active")

\* ------------------------------------------------------------------ C25
\* C25: when the level state of a key is restored from its record into an
\* engine holding no state for it, the duplicate-key set and the category
\* counts match the restored store, and every incremental detection after the
\* restart leaves the restored engine with the store the process that kept
\* running has.
C25_RestartEquivalence ==
  [][/\ Restart =>
          /\ restored'.indexSet = {restored'.store[p].key : p \in 1..Len(restored'.store)}
          /\ restored'.counts["eqh"] = CountLevels(restored'.store, LAMBDA l : l.type = "EQH")
          /\ restored'.counts["eql"] = CountLevels(restored'.store, LAMBDA l : l.type = "EQL")
          /\ \A status \in {"active", "swept", "broken"} :
               restored'.counts[status]
                 = CountLevels(restored'.store, LAMBDA l : l.status = status)
     /\ (LevelLatest /\ restored # NoEngine) => restored'.store = lv'.store]_vars

\* A restarted engine has caught up with the other one on a level whose record
\* on disk is still behind, after the store had lost a level to the cap.
C25_Witness ==
  /\ restored # NoEngine
  /\ disk # NoRecord
  /\ phase = "idle"
  /\ restored.store = lv.store
  /\ lv.counts["eqh"] + lv.counts["eql"] > Len(lv.store)
  /\ \E p \in 1..Len(restored.store) : \E q \in 1..Len(disk.store) :
       /\ disk.store[q].key = restored.store[p].key
       /\ disk.store[q].status # restored.store[p].status


\* ------------------------------------------------------------------ C26
\* C26: a non-positive strength is clamped to 1: whatever the candles and the
\* store, detectAll and detectLatest called with a strength <= 0 return the
\* same result and leave the same store as the same call with strength 1.
C26_StrengthClamped ==
  \A k \in {-1, 0} :
    /\ SwingDetectAllResult(candles, k) = SwingDetectAllResult(candles, 1)
    /\ SwingDetectAllStore(swings, candles, k) = SwingDetectAllStore(swings, candles, 1)
    /\ SwingDetectLatestResult(swings, swingIndexSet, candles, k)
         = SwingDetectLatestResult(swings, swingIndexSet, candles, 1)
    /\ SwingDetectLatestStore(swings, swingIndexSet, candles, k)
         = SwingDetectLatestStore(swings, swingIndexSet, candles, 1)

\* ------------------------------------------------------------------ C27
\* How many positions after the candle at array position pos (0-based) the
\* candles stand that close beyond the close `close`, upwards or downwards
PromotingDistances(cs, pos, close, upwards) ==
  {d \in 1..(Len(cs) - 1 - pos) :
     IF upwards THEN cs[pos + d + 1].close > close ELSE cs[pos + d + 1].close < close}

\* C27: the sustained window is exactly the MAX_BOS_SCAN_CANDLES candles after
\* the confirming candle, in the breakout engine and in the level engine
\* alike: after every pass a closed-through breakout or a broken level is
\* SUSTAINED exactly when a candle at most MAX_BOS_SCAN_CANDLES positions
\* after its confirming candle closed beyond the confirming close, so the
\* candle at that distance promotes and the candles further on never do.
C27_SustainedWindow ==
  phase = "idle" =>
    /\ \A q \in 1..Len(bo.store) :
         bo.store[q].bosType \in {"BOS_CLOSE", "BOS_SUSTAINED"} =>
           With(PromotingDistances(candles,
                                   candleIndexMapGet(candles, bo.store[q].breakingCandleIndex),
                                   bo.store[q].breakingCandleClose,
                                   bo.store[q].swingType = "high"),
                LAMBDA distances :
                  /\ bo.store[q].bosType = "BOS_SUSTAINED"
                       <=> \E d \in distances : d <= MAX_BOS_SCAN_CANDLES
                  /\ bo.store[q].bosType = "BOS_SUSTAINED" =>
                       bo.store[q].confirmingCandles[2].index - bo.store[q].breakingCandleIndex
                         \in distances \cap (1..MAX_BOS_SCAN_CANDLES))
    /\ \A p \in 1..Len(lv.store) :
         lv.store[p].status = "broken" =>
           With(PromotingDistances(candles,
                                   candleIndexMapGet(candles, lv.store[p].brokenIndex),
                                   lv.store[p].brokenBy,
                                   lv.store[p].type = "EQH"),
                LAMBDA distances :
                  lv.store[p].brokenBosType = "BOS_SUSTAINED"
                    <=> \E d \in distances : d <= MAX_BOS_SCAN_CANDLES)

\* C27 happens: a breakout and a broken level are SUSTAINED through the candle
\* exactly MAX_BOS_SCAN_CANDLES positions after their confirming candle, no
\* nearer candle having closed beyond the confirming close.
C27_Witness ==
  /\ phase = "idle"
  /\ \E q \in 1..Len(bo.store) :
       /\ bo.store[q].bosType = "BOS_SUSTAINED"
       /\ bo.store[q].confirmingCandles[2].index
            = bo.store[q].breakingCandleIndex + MAX_BOS_SCAN_CANDLES
  /\ \E p \in 1..Len(lv.store) :
       /\ lv.store[p].status = "broken"
       /\ lv.store[p].brokenBosType = "BOS_SUSTAINED"
       /\ PromotingDistances(candles, candleIndexMapGet(candles, lv.store[p].brokenIndex),
                             lv.store[p].brokenBy, lv.store[p].type = "EQH")
            \cap (1..MAX_BOS_SCAN_CANDLES) = {MAX_BOS_SCAN_CANDLES}

\* ------------------------------------------------------------------ C28
\* The swing a breakout record belongs to, as the swing store holds it
SwingOf(record) ==
  swings[CHOOSE s \in 1..Len(swings) :
           swings[s].index = record.swingIndex /\ swings[s].type = record.swingType]

\* C28: a breakout that is in the store stays where it is, and from one step
\* to the next it either stays as it is or is upgraded: then its strength rank
\* has grown, its kind, rank, breaking-candle fields, confirming candles and
\* confidence are those of the break recomputed over the candles, and its
\* swing type, index, price, key price, direction and time, its break
\* direction and its character-change flag are what they were.
C28_UpgradeFrame ==
  [][\A p \in 1..Len(bo.store) :
       /\ p <= Len(bo'.store)
       /\ \/ bo'.store[p] = bo.store[p]
          \/ /\ bo'.store[p].strength > bo.store[p].strength
             /\ bo'.store[p].strength = BosStrength(bo'.store[p].bosType)
             /\ MatchesExpected(bo'.store[p],
                                ExpectedBreak(SwingOf(bo.store[p]), candles'), candles')
             /\ bo'.store[p].breakingCandleTime = bo'.store[p].time
             /\ bo'.store[p].confidence
                  = BoConfidence(bo'.store[p].strength, bo.store[p].isCHoCH)
             /\ \A field \in {"swingType", "swingIndex", "swingPrice", "swingKeyPrice",
                              "swingDirection", "swingTime", "breakDirection", "isCHoCH"} :
                  bo'.store[p][field] = bo.store[p][field]]_vars

\* C28 happens: a breakout that a wick first made, with an earlier candle only
\* poking beyond the swing price, sits in the store as SUSTAINED with a later
\* breaking candle: it has been upgraded twice.
C28_Witness ==
  /\ phase = "idle"
  /\ \E q \in 1..Len(bo.store) :
       /\ bo.store[q].bosType = "BOS_SUSTAINED"
       /\ \E c \in 1..Len(candles) :
            /\ candles[c].index > bo.store[q].swingIndex + 1
            /\ candles[c].index < bo.store[q].breakingCandleIndex
            /\ WickBeyond(SwingOf(bo.store[q]), candles[c])

\* ------------------------------------------------------------------ C29
\* What a status scan reaches
ScanResult(level) == <<level.status, level.sweptBy, level.brokenBy>>

\* The level as _validateAndBuild made it, scanned once from its second swing
SingleScan(level, cs) ==
  _checkLevelStatus([level EXCEPT !.status = "active",
                                  !.lastCheckedIndex = NullNum,
                                  !.preBreakoutVDepth = NullNum,
                                  !.preBreakoutVIndex = NullNum,
                                  !.preBreakoutVTime = NullNum,
                                  !.brokenTime = NullNum, !.brokenIndex = NullNum,
                                  !.brokenBy = NullNum, !.brokenBosType = Null,
                                  !.sweptTime = NullNum, !.sweptIndex = NullNum,
                                  !.sweptBy = NullNum,
                                  !.confidence = LvConfidence("active", Null)], cs)

\* The same candles and the same level with index values that have gaps
\* (every index doubled)
Gapped(cs) == [p \in 1..Len(cs) |-> [cs[p] EXCEPT !.index = 2 * @]]
GappedLevel(level) ==
  [level EXCEPT !.secondSwingIndex = 2 * @,
                !.lastCheckedIndex = IF @ = NullNum THEN @ ELSE 2 * @,
                !.brokenIndex = IF @ = NullNum THEN @ ELSE 2 * @]

\* C29: the status evaluation of a level is resumable: lastCheckedIndex never
\* decreases; a pass starts at the array position right after the candle
\* carrying it, also when the index values have gaps; and after every pass,
\* however many candles arrived since the pass before, status, sweptBy and
\* brokenBy of every level are those of a single scan from the second swing
\* over the same candles.
C29_Resumable ==
  [][/\ \A p \in 1..Len(lv.store) : \A q \in 1..Len(lv'.store) :
          lv.store[p].key = lv'.store[q].key =>
            /\ lv'.store[q].lastCheckedIndex >= lv.store[p].lastCheckedIndex
            /\ (LevelLatest /\ lv.store[p].status # "broken") =>
                 /\ lv.store[p].lastCheckedIndex # NullNum
                 /\ nextArrayIdx(Gapped(candles), 2 * lv.store[p].lastCheckedIndex)
                      = IF lv.store[p].lastCheckedIndex + 1 < Len(candles)
                          THEN lv.store[p].lastCheckedIndex + 1 ELSE -1
                 /\ ScanResult(_checkLevelStatus(GappedLevel(lv.store[p]), Gapped(candles)))
                      = ScanResult(lv'.store[q])
     /\ LevelLatest =>
          \A q \in 1..Len(lv'.store) :
            ScanResult(lv'.store[q]) = ScanResult(SingleScan(lv'.store[q], candles))]_vars

\* C29 happens: a level changed status on a candle that arrived after the pass
\* that made the level and whose own pass was not run (the swing that pass
\* would have recorded is missing), so a later pass found it while resuming
\* over several candles.
C29_Witness ==
  /\ phase = "idle"
  /\ \E q \in 1..Len(lv.store) : \E x \in 2..(Len(candles) - 2) :
       /\ x >= lv.store[q].secondSwingIndex + 2
       /\ x \in {lv.store[q].sweptIndex, lv.store[q].brokenIndex}
       /\ \/ StrictlyHighest(candles, x - 1, 1) /\ ~SwingRecorded(swings, x - 1, "high")
          \/ StrictlyLowest(candles, x - 1, 1) /\ ~SwingRecorded(swings, x - 1, "low")

\* ------------------------------------------------------------------ C30
\* The sanity invariant of a candle: the high is its highest price and the
\* low its lowest
SanityInvariant(c) ==
  /\ c.high >= c.open /\ c.high >= c.close /\ c.high >= c.low
  /\ c.low <= c.open /\ c.low <= c.close /\ c.low <= c.high

\* C30: a candle that fails the sanity invariant is never recorded as a
\* swing, and neither is a candle with such a candle among the k candles
\* before it or the k candles after it (k the strength of the swing).
C30_InsaneExcluded ==
  \A p \in 1..Len(swings) :
    \A j \in (swings[p].index - swings[p].strength)..(swings[p].index + swings[p].strength) :
      SanityInvariant(candles[j + 1])

\* ------------------------------------------------------------------ C31
\* C31: whatever incremental swing detections have run, detectLatest calls
\* repeated on an unchanged candle sequence among them, no two swings of the
\* store have the same candle position and type.
C31_NoDuplicateSwings ==
  \A p \in 1..Len(swings) : \A q \in 1..Len(swings) :
    p # q => <<swings[p].index, swings[p].type>> # <<swings[q].index, swings[q].type>>

\* The store already holds a swing at the centre a detectLatest call with the
\* current strength examines, and it holds swings pushed out of time order,
\* which only calls repeated on the same candles with another strength do.
C31_Witness ==
  ~(/\ phase = "idle"
    /\ \E p \in 1..Len(swings) : swings[p].index = Len(candles) - strength - 1
    /\ \E p \in 1..Len(swings) : \E q \in (p + 1)..Len(swings) :
         swings[p].index > swings[q].index)

\* ------------------------------------------------------------------ C32
\* The candles of cs scanned for the level so far that count for its pre-break
\* extreme: those after its second swing, up to the breaking candle when the
\* level is broken and up to the last candle checked otherwise.
PreBreakCandles(level, cs) ==
  {p \in 1..Len(cs) :
     /\ cs[p].index > level.secondSwingIndex
     /\ cs[p].index <= (IF level.status = "broken" THEN level.brokenIndex
                        ELSE level.lastCheckedIndex)}

\* The most adverse wick among them: lowest low for EQH, highest high for EQL.
MostAdverseWick(level, cs) ==
  With(PreBreakCandles(level, cs), LAMBDA scanned :
    IF level.type = "EQH"
      THEN CHOOSE w \in {cs[p].low : p \in scanned} : \A p \in scanned : w <= cs[p].low
      ELSE CHOOSE w \in {cs[p].high : p \in scanned} : \A p \in scanned : w >= cs[p].high)

\* C32: a level that has been scanned carries as its pre-break adverse extreme
\* the most adverse wick of the candles after its second swing scanned so far,
\* the breaking candle included and no candle after it (so the extreme of a
\* broken level stays what it was at the break); a level not scanned yet
\* carries none.
C32_AdverseExtreme ==
  \A p \in 1..Len(lv.store) :
    With(lv.store[p], LAMBDA level :
      IF level.lastCheckedIndex = NullNum
        THEN level.preBreakoutVDepth = NullNum
        ELSE level.preBreakoutVDepth = MostAdverseWick(level, candles))

\* A level whose extreme was deepened by a candle later than the first one
\* scanned, and a broken level whose breaking candle set the extreme and
\* which a candle with a more adverse wick has followed.
C32_Witness ==
  ~(/\ \E p \in 1..Len(lv.store) :
         lv.store[p].preBreakoutVIndex > lv.store[p].secondSwingIndex + 1
    /\ \E p \in 1..Len(lv.store) :
         /\ lv.store[p].status = "broken"
         /\ lv.store[p].preBreakoutVIndex = lv.store[p].brokenIndex
         /\ \E q \in 1..Len(candles) :
              /\ candles[q].index > lv.store[p].brokenIndex
              /\ IF lv.store[p].type = "EQH"
                   THEN candles[q].low < lv.store[p].preBreakoutVDepth
                   ELSE candles[q].high > lv.store[p].preBreakoutVDepth)

\* ------------------------------------------------------------------ C33
\* C33: no history batch and no live update changes the index under which
\* getCandles exposes a bar of a time it already exposed.
C33_StableIndices ==
  [][\A p \in 1..Len(candles) : \A q \in 1..Len(candles') :
       candles[p].time = candles'[q].time => candles[p].index = candles'[q].index]_vars

\* ------------------------------------------------------------------ C34
\* C34: every detectAll / detectLatest call that has been made, whether it
\* is inside fn, awaits the promise of an earlier call on its key or is about
\* to test the lock again, eventually returns or is rejected, and when it has
\* done so its key is no longer locked by it.
C34_CallsSettle ==
  \A c \in Callers :
    (pc[c] \in {"waiting", "woken", "inside"})
      ~> (/\ pc[c] \in {"returned", "rejected"}
          /\ \A k \in LockKeys : locks[k] # c)

\* A call was rejected because its write threw, its key is free again and a
\* caller that awaited its promise is about to test the lock.
C34_Witness ==
  ~(\E h, c \in Callers :
      /\ h # c
      /\ pc[h] = "rejected"
      /\ writes[h] = "failed"
      /\ pc[c] = "woken"
      /\ StateKey(c) = StateKey(h)
      /\ locks[StateKey(h)] = 0)

\* ------------------------------------------------------------------ C35
\* C35: when a detection has filled the store of the key while the read of a
\* _loadFromDisk was pending, the rest of the load leaves the store, the
\* duplicate set and the counts as the detection left them, which is the state
\* both orders of running the two one after the other end in (a detectAll
\* after the load rebuilds everything; ensureLevelsLoaded after the detection
\* finds levels and does not load).
C35_LoadAfterDetection ==
  [][(LoadFinish /\ lv.store # <<>>) =>
       /\ lv'.store = lv.store
       /\ lv'.indexSet = lv.indexSet
       /\ lv'.counts = lv.counts]_vars

\* ------------------------------------------------------------------ C36
\* The swings of the list of the other type than firstSwing that lie strictly
\* between the two swings (positions in the list)
OppositesBetween(firstSwing, secondSwing, list) ==
  {p \in 1..Len(list) :
     /\ list[p].type # firstSwing.type
     /\ list[p].index > firstSwing.index
     /\ list[p].index < secondSwing.index}

\* The candle of the swing at position p of the list is a swing of both types
OnDoubleSwingCandle(list, p) ==
  \E q \in 1..Len(list) : list[q].index = list[p].index /\ list[q].type # list[p].type

\* C36: for two swings of one type with exactly one swing of the opposite
\* type strictly between them, that one sitting on a candle that is a swing
\* high and a swing low at once, the V-shape loop of _validateAndBuild finds
\* the V shape, for highs (EQH) and for lows (EQL).
C36_DoubleSwingV ==
  \A pair \in OrderedPairs(swings) :
    With(swings[pair[1]], LAMBDA firstSwing : With(swings[pair[2]], LAMBDA secondSwing :
      With(OppositesBetween(firstSwing, secondSwing, swings), LAMBDA between :
        (/\ Cardinality(between) = 1
         /\ \A p \in between : OnDoubleSwingCandle(swings, p))
          => HasVShapeFrom(swings, 1, firstSwing, secondSwing,
                           IF firstSwing.type = "high" THEN "low" ELSE "high"))))

\* What C37 compares of a breakout record: the kind, the strength rank, the
\* breaking candle, the confirming candles, the character-change flag and the
\* confidence.
BoOutcome(b) ==
  [bosType |-> b.bosType,
   strength |-> b.strength,
   breakingCandleIndex |-> b.breakingCandleIndex,
   breakingCandleTime |-> b.breakingCandleTime,
   breakingCandleHigh |-> b.breakingCandleHigh,
   breakingCandleLow |-> b.breakingCandleLow,
   breakingCandleClose |-> b.breakingCandleClose,
   confirmingCandles |-> b.confirmingCandles,
   isCHoCH |-> b.isCHoCH,
   confidence |-> b.confidence]

\* The outcomes a store holds for the swing of a key (one at most when no
\* swing is recorded twice).
BoOutcomesOf(store, key) ==
  {BoOutcome(store[p]) : p \in {q \in 1..Len(store) : BoKey(store[q]) = key}}

\* C37: after one detectLatest per appended candle, every swing has the same
\* breakout outcome (kind, strength rank, breaking candle, confirming candles,
\* character-change flag, confidence) as one detectAll over the same candles
\* gives it, or none in both, wherever the record sits in the list.
C37_PerSwingEquivalence ==
  phase = "idle" =>
    \A p \in 1..Len(BatchSwings) :
      With(<<BatchSwings[p].index, BatchSwings[p].type>>, LAMBDA key :
        BoOutcomesOf(bo.store, key) = BoOutcomesOf(BatchBreakouts.store, key))

\* C37 witness: the incremental list is in another order than the full one
\* and holds a SUSTAINED record whose breaking candle came after the pass that
\* confirmed its swing, so that the record was first stored weaker and was
\* upgraded in place.
C37_Witness ==
  /\ phase = "idle"
  /\ bo.store # BatchBreakouts.store
  /\ \E p \in 1..Len(bo.store) :
       /\ bo.store[p].bosType = "BOS_SUSTAINED"
       /\ bo.store[p].breakingCandleIndex > bo.store[p].swingIndex + strength
       /\ bo.store[p].confirmingCandles[2].index > bo.store[p].breakingCandleIndex

\* C38: after any sequence of full and incremental breakout detections, with
\* upgrades in place, each count of the breakout summary (sustained, close,
\* wick, bullish, bearish, character change, plain BOS) is the number of
\* breakouts of that category in the store.
C38_BreakoutCounts ==
  With(BoGetSummary(bo), LAMBDA summary :
    /\ summary.sustained = CountLevels(bo.store, LAMBDA b : b.bosType = "BOS_SUSTAINED")
    /\ summary.close = CountLevels(bo.store, LAMBDA b : b.bosType = "BOS_CLOSE")
    /\ summary.wick = CountLevels(bo.store, LAMBDA b : b.bosType = "BOS_WICK")
    /\ summary.bullish = CountLevels(bo.store, LAMBDA b : b.breakDirection = "bullish")
    /\ summary.bearish = CountLevels(bo.store, LAMBDA b : b.breakDirection = "bearish")
    /\ summary.choch = CountLevels(bo.store, LAMBDA b : b.isCHoCH)
    /\ summary.bos = CountLevels(bo.store, LAMBDA b : ~b.isCHoCH)
    /\ summary.total = Len(bo.store))

\* C38 witness: the store holds a SUSTAINED record that was first stored
\* weaker and upgraded in place, next to a record of another kind, with a
\* character change among them.
C38_Witness ==
  /\ phase = "idle"
  /\ \E p \in 1..Len(bo.store) :
       /\ bo.store[p].bosType = "BOS_SUSTAINED"
       /\ bo.store[p].breakingCandleIndex > bo.store[p].swingIndex + strength
  /\ \E p \in 1..Len(bo.store) : bo.store[p].bosType # "BOS_SUSTAINED"
  /\ bo.counts.choch >= 1
  /\ bo.counts.sustained >= 1

\* C39: after every detectAll and every detectLatest of the level engine, the
\* pair-identity duplicate set holds exactly the keys of the levels in the
\* store: an eviction takes a level out of both in the step of the insert
\* that triggers it.
C39_DuplicateSetExact == lv.indexSet = SeqKeys(lv.store)

\* The confidence C40 states, in tenths: 1.0 for ACTIVE, 0.5 for SWEPT, 0.2 for
\* BROKEN, plus 0.3 when the kind of break is SUSTAINED, capped at 1.0.
StatedConfidence(level) ==
  LET base == IF level.status = "active" THEN 10
              ELSE IF level.status = "swept" THEN 5 ELSE 2
      boost == IF level.brokenBosType = "BOS_SUSTAINED" THEN 3 ELSE 0
  IN IF base + boost > 10 THEN 10 ELSE base + boost

\* C40: the confidence of every level of the store is the value its current
\* status and kind of break determine (ACTIVE 1.0, SWEPT 0.5, BROKEN 0.2, plus
\* 0.3 for a SUSTAINED break, capped at 1.0), after every status transition
\* and every upgrade of the kind of break.
C40_ConfidenceCurrent ==
  \A p \in 1..Len(lv.store) :
    /\ lv.store[p].status \in {"active", "swept", "broken"}
    /\ lv.store[p].confidence = LvConfidence(lv.store[p].status, lv.store[p].brokenBosType)
    /\ lv.store[p].confidence = StatedConfidence(lv.store[p])

\* C40 witness: a level broken on a pass after the one that created it, where
\* it was CLOSE at 0.2, and found SUSTAINED on a later pass, where it went to
\* 0.5; the store also holds a level of another status.
C40_Witness ==
  /\ phase = "idle"
  /\ \E p \in 1..Len(lv.store) :
       /\ lv.store[p].status = "broken"
       /\ lv.store[p].brokenBosType = "BOS_SUSTAINED"
       /\ lv.store[p].brokenIndex > lv.store[p].secondSwingIndex + 1
       /\ lv.store[p].confidence = 5
  /\ \E p \in 1..Len(lv.store) : lv.store[p].status # "broken"

====
